---- MODULE Spec2Model ----
(***************************************************************************)
(* A model of the benchmark orchestrator of remcap (bench/runner.py), the  *)
(* Rerun server controller with its memory sampler thread                  *)
(* (bench/backends/rerun/server.py), the backend registry                  *)
(* (bench/backends/__init__.py) and the metrics records                    *)
(* (bench/metrics.py).                                                     *)
(*                                                                         *)
(* The orchestrator is one sequential thread (pc).  A call of              *)
(* server.start() or server.stop() runs the controller's statements one    *)
(* step at a time (spc) while the orchestrator waits for the call to end;  *)
(* the server subprocess, the client processes and the sampler thread run  *)
(* concurrently with it.                                                   *)
(***************************************************************************)
EXTENDS Integers, Sequences, FiniteSets, TLC

\* ------------------------------------------------------------------ bounds
MaxGroups == 3
MaxCount == 2
MaxClients == 3
MaxSamples == 1
MaxPublish == 2     \* the longest rr.log() call, in ticks
MaxOversleep == 1   \* the longest overrun of a time.sleep(), in ticks
MaxAggClients == 3  \* the longest list of client records aggregated
MaxCalls == 5       \* the number of registry calls followed
MaxSeconds == 21    \* the length of a long client run, in seconds
MaxStarts == 2      \* the number of start() calls on one server object
MaxStops == 2       \* the number of stop() calls on one server object

\* ------------------------------------------------------- inputs and helpers
\* config.py: ClientConfig.language is Literal["python", "cpp", "rust"]; two of
\* the three are enough to have a supported and an unsupported group.
Languages == {"python", "cpp"}

\* config.py: BackendConfig.type is Literal["rerun", "foxglove"].
BackendTypes == {"rerun", "foxglove"}

\* backends/__init__.py: the registry after import, keys in insertion order.
BACKENDS == <<"rerun">>

\* backends/rerun/__init__.py: RerunBackend.supported_languages().
supported_languages == <<"python">>

Range(s) == {s[k] : k \in 1..Len(s)}

ClientGroups == [language : Languages, count : 1..MaxCount]

RECURSIVE SumCount(_)
SumCount(groups) ==
  IF groups = <<>> THEN 0 ELSE Head(groups).count + SumCount(Tail(groups))

\* config.py 110-112: BenchmarkConfig.get_total_client_count().
get_total_client_count(cfg) == SumCount(cfg.clients)

\* config.py: BenchmarkConfig.clients has min_length=1, count has ge=1.
Configs ==
  {c \in [type : BackendTypes,
          clients : UNION {[1..n -> ClientGroups] : n \in 1..MaxGroups}] :
     get_total_client_count(c) <= MaxClients}

\* What the server subprocess may have written to its pipes before it died.
ServerOutputs == [stdout : {"", "out"}, stderr : {"", "err"}]

NoError == [type |-> "none", payload |-> <<>>]
Error(t, p) == [type |-> t, payload |-> p]

\* runner.py: client_id = f"client_{client_idx}"
ClientId(idx) == <<"client_", idx>>

\* runner.py: metrics_file = tmpdir_path / f"{client_id}_metrics.json"
MetricsFile(client_id) == <<"tmpdir", client_id, "_metrics.json">>

\* metrics.py: ServerMetrics() as constructed: no samples, times 0.0.
NewServerMetrics ==
  [memory_samples |-> <<>>, start_time |-> 0, end_time |-> 0,
   rrd_file_size_mb |-> 0]

\* ------------------------------------------------ numbers and statistics
\* A Python float that is a quotient of two integers is kept exact, as a
\* fraction in lowest terms; 0.0 is Rat(0, 1).  Latencies and times are whole
\* numbers of milliseconds and ticks.
RECURSIVE GCD(_, _)
GCD(a, b) == IF b = 0 THEN a ELSE GCD(b, a % b)
Rat(n, d) == LET g == GCD(n, d) IN [num |-> n \div g, den |-> d \div g]
RatAdd(a, b) == Rat(a.num * b.den + b.num * a.den, a.den * b.den)
Zero == Rat(0, 1)

\* sum(xs), by halves.
RECURSIVE SumRange(_, _, _)
SumRange(xs, lo, hi) ==
  IF lo > hi THEN 0
  ELSE IF lo = hi THEN xs[lo]
  ELSE LET mid == (lo + hi) \div 2
       IN  SumRange(xs, lo, mid) + SumRange(xs, mid + 1, hi)
SumSeq(xs) == SumRange(xs, 1, Len(xs))

\* sorted(xs)[i], i counted from 0: the least value that at least i + 1
\* entries of xs do not exceed.
sorted_at(xs, i) ==
  LET atLeast == {v \in Range(xs) :
                    Cardinality({j \in DOMAIN xs : xs[j] <= v}) >= i + 1}
  IN  CHOOSE v \in atLeast : \A w \in atLeast : v <= w

\* max(xs), min(xs) of a non-empty list.
max(xs) == CHOOSE x \in Range(xs) : \A y \in Range(xs) : y <= x
min(xs) == CHOOSE x \in Range(xs) : \A y \in Range(xs) : x <= y

\* statistics.mean and statistics.median; both raise StatisticsError for an
\* empty list, which is kept as a value no fraction equals.
StatisticsError == [num |-> 0, den |-> 0]
mean(xs) == IF xs = <<>> THEN StatisticsError ELSE Rat(SumSeq(xs), Len(xs))
median(xs) ==
  LET n == Len(xs)
  IN  IF n = 0 THEN StatisticsError
      ELSE IF n % 2 = 1 THEN Rat(sorted_at(xs, n \div 2), 1)
      ELSE Rat(sorted_at(xs, n \div 2 - 1) + sorted_at(xs, n \div 2), 2)

\* p99 with the rank taken from the top instead of the nearest rank: the
\* largest value whatever the length.
NearestRank99_Last(xs) == sorted_at(xs, Len(xs) - 1)

\* metrics.py 106-109 and 204-206: sorted(xs)[min(int(len(xs) * 0.99),
\* len(xs) - 1)] for a non-empty list.
NearestRank99(xs) ==
  LET idx == (Len(xs) * 99) \div 100
  IN  sorted_at(xs, IF idx < Len(xs) - 1 THEN idx ELSE Len(xs) - 1)

\* ------------------------------------------------------- metrics records
\* data_size is an int or a str.
PyInt(n) == [kind |-> "int", n |-> n, s |-> <<>>]
PyStr(s) == [kind |-> "str", n |-> 0, s |-> s]

\* metrics.py 77-89: ClientMetrics(client_id=..., data_type=..., data_size=...,
\* frequency_hz=...), the other fields at their defaults.
ClientMetrics(client_id, data_type, data_size, frequency_hz) ==
  [client_id |-> client_id, data_type |-> data_type, data_size |-> data_size,
   frequency_hz |-> frequency_hz, log_count |-> 0, latencies_ms |-> <<>>,
   start_time |-> 0, end_time |-> 0, errors |-> <<>>]

\* metrics.py 91-121: the latency properties of ClientMetrics.
latency_mean_ms(m) ==
  IF m.latencies_ms = <<>> THEN Zero ELSE mean(m.latencies_ms)
latency_p50_ms(m) ==
  IF m.latencies_ms = <<>> THEN Zero ELSE median(m.latencies_ms)
latency_p99_ms(m) ==
  IF m.latencies_ms = <<>> THEN 0 ELSE NearestRank99(m.latencies_ms)
latency_max_ms(m) == IF m.latencies_ms = <<>> THEN 0 ELSE max(m.latencies_ms)
latency_min_ms(m) == IF m.latencies_ms = <<>> THEN 0 ELSE min(m.latencies_ms)

\* metrics.py 123-131: ClientMetrics.duration_sec and throughput.
duration_sec(m) == m.end_time - m.start_time
throughput(m) ==
  IF duration_sec(m) <= 0 THEN Zero ELSE Rat(m.log_count, duration_sec(m))

\* metrics.py 133-151: ClientMetrics.to_dict, the stored and the derived
\* fields.
ClientMetrics_to_dict(m) ==
  [client_id |-> m.client_id, data_type |-> m.data_type,
   data_size |-> m.data_size, frequency_hz |-> m.frequency_hz,
   log_count |-> m.log_count, latencies_ms |-> m.latencies_ms,
   latency_mean_ms |-> latency_mean_ms(m),
   latency_p50_ms |-> latency_p50_ms(m),
   latency_p99_ms |-> latency_p99_ms(m),
   latency_max_ms |-> latency_max_ms(m),
   latency_min_ms |-> latency_min_ms(m),
   start_time |-> m.start_time, end_time |-> m.end_time,
   duration_sec |-> duration_sec(m), throughput |-> throughput(m),
   errors |-> m.errors]

\* dict.get(key, default)
Get(data, key, default) == IF key \in DOMAIN data THEN data[key] ELSE default

\* ClientMetrics.from_dict that leaves the error list at its default.
ClientMetrics_from_dict_NoErrors(data) ==
  [client_id |-> Get(data, "client_id", ""),
   data_type |-> Get(data, "data_type", ""),
   data_size |-> Get(data, "data_size", PyInt(0)),
   frequency_hz |-> Get(data, "frequency_hz", 0),
   log_count |-> Get(data, "log_count", 0),
   latencies_ms |-> Get(data, "latencies_ms", <<>>),
   start_time |-> Get(data, "start_time", 0),
   end_time |-> Get(data, "end_time", 0),
   errors |-> <<>>]

\* metrics.py 153-165: ClientMetrics.from_dict reads the stored fields, each
\* with its default, and nothing else.
ClientMetrics_from_dict(data) ==
  [client_id |-> Get(data, "client_id", ""),
   data_type |-> Get(data, "data_type", ""),
   data_size |-> Get(data, "data_size", PyInt(0)),
   frequency_hz |-> Get(data, "frequency_hz", 0),
   log_count |-> Get(data, "log_count", 0),
   latencies_ms |-> Get(data, "latencies_ms", <<>>),
   start_time |-> Get(data, "start_time", 0),
   end_time |-> Get(data, "end_time", 0),
   errors |-> Get(data, "errors", <<>>)]

\* ------------------------------------------------------------- JSON text
\* json.dump writes a value as text and json.load parses the text: a str is
\* a string literal, an int or a float a number literal, a list an array and
\* a dict an object.
JString(v) == [json |-> "string", text |-> v]
JNumber(v) == [json |-> "number", text |-> v]
JArray(items) == [json |-> "array", text |-> items]
JObject(members) == [json |-> "object", text |-> members]
JSize(v) == IF v.kind = "int" THEN JNumber(v.n) ELSE JString(v.s)
Parsed(j) == j.text
ParsedSize(j) ==
  IF j.json = "number" THEN PyInt(j.text) ELSE PyStr(j.text)
JNumbers(xs) == JArray([k \in DOMAIN xs |-> JNumber(xs[k])])
JStrings(xs) == JArray([k \in DOMAIN xs |-> JString(xs[k])])
ParsedItems(j) == [k \in DOMAIN j.text |-> Parsed(j.text[k])]

\* json.dump of the dict ClientMetrics.to_dict returns.
ClientMetrics_dump(d) ==
  JObject([client_id |-> JString(d.client_id),
           data_type |-> JString(d.data_type),
           data_size |-> JSize(d.data_size),
           frequency_hz |-> JNumber(d.frequency_hz),
           log_count |-> JNumber(d.log_count),
           latencies_ms |-> JNumbers(d.latencies_ms),
           latency_mean_ms |-> JNumber(d.latency_mean_ms),
           latency_p50_ms |-> JNumber(d.latency_p50_ms),
           latency_p99_ms |-> JNumber(d.latency_p99_ms),
           latency_max_ms |-> JNumber(d.latency_max_ms),
           latency_min_ms |-> JNumber(d.latency_min_ms),
           start_time |-> JNumber(d.start_time),
           end_time |-> JNumber(d.end_time),
           duration_sec |-> JNumber(d.duration_sec),
           throughput |-> JNumber(d.throughput),
           errors |-> JStrings(d.errors)])

\* json.load of the text of a client metrics object.
ClientMetrics_parse(j) ==
  LET o == j.text
  IN  [key \in DOMAIN o |->
         CASE key = "data_size" -> ParsedSize(o[key])
           [] key \in {"latencies_ms", "errors"} -> ParsedItems(o[key])
           [] OTHER -> Parsed(o[key])]

\* metrics.py 284-288: what save_client_metrics writes.
save_client_metrics(m) == ClientMetrics_dump(ClientMetrics_to_dict(m))

\* ------------------------------------------------------------ aggregation
RECURSIVE SumLogCount(_)
SumLogCount(clients) ==
  IF clients = <<>> THEN 0
  ELSE Head(clients).log_count + SumLogCount(Tail(clients))

RECURSIVE AllLatencies(_)
AllLatencies(clients) ==
  IF clients = <<>> THEN <<>>
  ELSE Head(clients).latencies_ms \o AllLatencies(Tail(clients))

RECURSIVE SumThroughput(_)
SumThroughput(clients) ==
  IF clients = <<>> THEN Zero
  ELSE RatAdd(throughput(Head(clients)), SumThroughput(Tail(clients)))

\* metrics.py 168-179: AggregatedClientMetrics(), every field at its default.
AggregatedClientMetrics ==
  [total_log_count |-> 0, total_throughput |-> Zero,
   latency_mean_ms |-> Zero, latency_p50_ms |-> Zero, latency_p99_ms |-> 0,
   latency_max_ms |-> 0, latency_min_ms |-> 0, client_count |-> 0,
   all_latencies |-> <<>>]

\* from_clients with the throughput taken over the merged window, from the
\* earliest start to the latest end.
from_clients_MergedWindow(clients) ==
  IF clients = <<>> THEN AggregatedClientMetrics
  ELSE
    LET all_latencies == AllLatencies(clients)
        first == min([k \in DOMAIN clients |-> clients[k].start_time])
        last == max([k \in DOMAIN clients |-> clients[k].end_time])
        totals == [AggregatedClientMetrics EXCEPT
                     !.total_log_count = SumLogCount(clients),
                     !.total_throughput =
                       IF last - first <= 0 THEN Zero
                       ELSE Rat(SumLogCount(clients), last - first),
                     !.client_count = Len(clients),
                     !.all_latencies = all_latencies]
    IN  IF all_latencies = <<>> THEN totals
        ELSE [totals EXCEPT
                !.latency_mean_ms = mean(all_latencies),
                !.latency_p50_ms = median(all_latencies),
                !.latency_p99_ms = NearestRank99(all_latencies),
                !.latency_max_ms = max(all_latencies),
                !.latency_min_ms = min(all_latencies)]

\* from_clients without the test for an empty latency list: the mean and the
\* median are taken of whatever the merged list is.
from_clients_NoEmptyTest(clients) ==
  IF clients = <<>> THEN AggregatedClientMetrics
  ELSE
    LET all_latencies == AllLatencies(clients)
        totals == [AggregatedClientMetrics EXCEPT
                     !.total_log_count = SumLogCount(clients),
                     !.total_throughput = SumThroughput(clients),
                     !.client_count = Len(clients),
                     !.all_latencies = all_latencies,
                     !.latency_mean_ms = mean(all_latencies),
                     !.latency_p50_ms = median(all_latencies)]
    IN  IF all_latencies = <<>> THEN totals
        ELSE [totals EXCEPT
                !.latency_p99_ms = NearestRank99(all_latencies),
                !.latency_max_ms = max(all_latencies),
                !.latency_min_ms = min(all_latencies)]

\* metrics.py 181-210: AggregatedClientMetrics.from_clients.  all_latencies
\* is the local list the statistics are taken from, kept here beside the
\* fields of the result.
from_clients(clients) ==
  IF clients = <<>> THEN AggregatedClientMetrics
  ELSE
    LET all_latencies == AllLatencies(clients)
        totals == [AggregatedClientMetrics EXCEPT
                     !.total_log_count = SumLogCount(clients),
                     !.total_throughput = SumThroughput(clients),
                     !.client_count = Len(clients),
                     !.all_latencies = all_latencies]
    IN  IF all_latencies = <<>> THEN totals
        ELSE [totals EXCEPT
                !.latency_mean_ms = mean(all_latencies),
                !.latency_p50_ms = median(all_latencies),
                !.latency_p99_ms = NearestRank99(all_latencies),
                !.latency_max_ms = max(all_latencies),
                !.latency_min_ms = min(all_latencies)]

\* ----------------------------------------- server metrics and the result
\* metrics.py 30-44: the derived properties of ServerMetrics.
memory_peak_mb(m) ==
  IF m.memory_samples = <<>> THEN 0
  ELSE max([k \in DOMAIN m.memory_samples |-> m.memory_samples[k].memory_mb])
memory_avg_mb(m) ==
  IF m.memory_samples = <<>> THEN Zero
  ELSE mean([k \in DOMAIN m.memory_samples |-> m.memory_samples[k].memory_mb])

\* metrics.py 46-58: ServerMetrics.to_dict.
ServerMetrics_to_dict(m) ==
  [memory_samples |->
     [k \in DOMAIN m.memory_samples |->
        [timestamp |-> m.memory_samples[k].timestamp,
         memory_mb |-> m.memory_samples[k].memory_mb]],
   memory_peak_mb |-> memory_peak_mb(m),
   memory_avg_mb |-> memory_avg_mb(m),
   start_time |-> m.start_time, end_time |-> m.end_time,
   duration_sec |-> m.end_time - m.start_time,
   rrd_file_size_mb |-> m.rrd_file_size_mb]

\* metrics.py 60-74: ServerMetrics.from_dict.
ServerMetrics_from_dict(data) ==
  LET samples == Get(data, "memory_samples", <<>>)
  IN  [memory_samples |->
         [k \in DOMAIN samples |->
            [timestamp |-> samples[k].timestamp,
             memory_mb |-> samples[k].memory_mb]],
       start_time |-> Get(data, "start_time", 0),
       end_time |-> Get(data, "end_time", 0),
       rrd_file_size_mb |-> Get(data, "rrd_file_size_mb", 0)]

\* json.dump and json.load of the dict ServerMetrics.to_dict returns.
ServerMetrics_dump(d) ==
  JObject([memory_samples |->
             JArray([k \in DOMAIN d.memory_samples |->
                       JObject([timestamp |->
                                  JNumber(d.memory_samples[k].timestamp),
                                memory_mb |->
                                  JNumber(d.memory_samples[k].memory_mb)])]),
           memory_peak_mb |-> JNumber(d.memory_peak_mb),
           memory_avg_mb |-> JNumber(d.memory_avg_mb),
           start_time |-> JNumber(d.start_time),
           end_time |-> JNumber(d.end_time),
           duration_sec |-> JNumber(d.duration_sec),
           rrd_file_size_mb |-> JNumber(d.rrd_file_size_mb)])
ServerMetrics_parse(j) ==
  LET o == j.text
  IN  [key \in DOMAIN o |->
         IF key = "memory_samples"
           THEN [k \in DOMAIN o[key].text |->
                   [f \in DOMAIN o[key].text[k].text |->
                      Parsed(o[key].text[k].text[f])]]
           ELSE Parsed(o[key])]

\* metrics.py 212-222: AggregatedClientMetrics.to_dict.
AggregatedClientMetrics_to_dict(a) ==
  [total_log_count |-> a.total_log_count,
   total_throughput |-> a.total_throughput,
   latency_mean_ms |-> a.latency_mean_ms,
   latency_p50_ms |-> a.latency_p50_ms,
   latency_p99_ms |-> a.latency_p99_ms,
   latency_max_ms |-> a.latency_max_ms,
   latency_min_ms |-> a.latency_min_ms,
   client_count |-> a.client_count]
AggregatedClientMetrics_dump(d) ==
  JObject([key \in DOMAIN d |-> JNumber(d[key])])

\* config.model_dump(): the snapshot of a configuration, a dict of str, int
\* and list values, and its JSON text.
ConfigSnapshot_dump(d) ==
  JObject([name |-> JString(d.name),
           backend |-> JObject([type |-> JString(d.backend.type)]),
           clients |->
             JArray([k \in DOMAIN d.clients |->
                       JObject([language |-> JString(d.clients[k].language),
                                count |-> JNumber(d.clients[k].count)])])])
ConfigSnapshot_parse(j) ==
  [name |-> Parsed(j.text.name),
   backend |-> [type |-> Parsed(j.text.backend.text.type)],
   clients |->
     [k \in DOMAIN j.text.clients.text |->
        [language |-> Parsed(j.text.clients.text[k].text.language),
         count |-> Parsed(j.text.clients.text[k].text.count)]]]

\* metrics.py 225-235: BenchmarkResult.
BenchmarkResult(name, description, backend_type, timestamp, config_snapshot) ==
  [name |-> name, description |-> description, backend_type |-> backend_type,
   timestamp |-> timestamp, server_metrics |-> NewServerMetrics,
   client_metrics |-> <<>>, config_snapshot |-> config_snapshot]

\* metrics.py 241-251: BenchmarkResult.to_dict.
BenchmarkResult_to_dict(r) ==
  [name |-> r.name, description |-> r.description,
   backend_type |-> r.backend_type, timestamp |-> r.timestamp,
   server_metrics |-> ServerMetrics_to_dict(r.server_metrics),
   client_metrics |->
     [k \in DOMAIN r.client_metrics |->
        ClientMetrics_to_dict(r.client_metrics[k])],
   aggregated_client_metrics |->
     AggregatedClientMetrics_to_dict(from_clients(r.client_metrics)),
   config_snapshot |-> r.config_snapshot]

\* metrics.py 253-264: BenchmarkResult.save, the text json.dump writes.
BenchmarkResult_save(r) ==
  LET d == BenchmarkResult_to_dict(r)
  IN  JObject([name |-> JString(d.name),
               description |-> JString(d.description),
               backend_type |-> JString(d.backend_type),
               timestamp |-> JString(d.timestamp),
               server_metrics |-> ServerMetrics_dump(d.server_metrics),
               client_metrics |->
                 JArray([k \in DOMAIN d.client_metrics |->
                           ClientMetrics_dump(d.client_metrics[k])]),
               aggregated_client_metrics |->
                 AggregatedClientMetrics_dump(d.aggregated_client_metrics),
               config_snapshot |-> ConfigSnapshot_dump(d.config_snapshot)])

\* metrics.py 268-269: json.load of the text of a saved result.
BenchmarkResult_parse(j) ==
  LET o == j.text
  IN  [key \in DOMAIN o |->
         CASE key = "server_metrics" -> ServerMetrics_parse(o[key])
           [] key = "client_metrics" ->
                [k \in DOMAIN o[key].text |->
                   ClientMetrics_parse(o[key].text[k])]
           [] key = "aggregated_client_metrics" ->
                [f \in DOMAIN o[key].text |-> Parsed(o[key].text[f])]
           [] key = "config_snapshot" -> ConfigSnapshot_parse(o[key])
           [] OTHER -> Parsed(o[key])]

\* metrics.py 266-281: BenchmarkResult.load.
BenchmarkResult_load(j) ==
  LET data == BenchmarkResult_parse(j)
      clients == Get(data, "client_metrics", <<>>)
  IN  [name |-> data.name,
       description |-> Get(data, "description", ""),
       backend_type |-> data.backend_type,
       timestamp |-> data.timestamp,
       server_metrics |->
         ServerMetrics_from_dict(Get(data, "server_metrics", <<>>)),
       client_metrics |->
         [k \in DOMAIN clients |-> ClientMetrics_from_dict(clients[k])],
       config_snapshot |-> Get(data, "config_snapshot", <<>>)]

\* The metrics files a client process can leave when it exits: the record it
\* wrote, a file cut short (the process died while writing, the text is not
\* valid JSON), or no file at all.
ClientRecord(client_id) ==
  [ClientMetrics(client_id, "points3d", PyInt(100), 10)
     EXCEPT !.log_count = 1, !.latencies_ms = <<1>>, !.end_time = 1]
FileContents(client_id) ==
  {[valid_json |-> TRUE, client_id |-> client_id],
   [valid_json |-> FALSE, client_id |-> client_id]}
\* The text of a file of a client process: what save_client_metrics wrote.
FileText(content) == save_client_metrics(ClientRecord(content.client_id))

VARIABLES
  config,          \* the validated BenchmarkConfig
  keep_tmpdir,     \* the --keep flag
  pc,              \* where the orchestrator (main / run_benchmark) is
  exc,             \* the exception propagating in run_benchmark, or NoError
  tmpdir,          \* "none", "exists" or "removed"
  files,           \* the metrics files in tmpdir: path -> content
  client_procs,    \* run_benchmark's list of (proc, metrics_file, client_id)
  client_idx,      \* run_benchmark's running client index
  group_idx,       \* index of the client group being launched (1-based)
  inst_idx,        \* the i of "for i in range(client_group.count)"
  wait_idx,        \* index of the client proc.wait() is called on (1-based)
  cstate,          \* OS state of each launched client process
  result,          \* the BenchmarkResult being assembled
  saved,           \* whether main wrote the result file
  spc,             \* where the running server.start() / stop() call is
  srv_error,       \* the exception the server call raised
  proc,            \* RerunServer._proc is not None
  temp_dir_set,    \* RerunServer._temp_dir is not None
  metrics,         \* RerunServer._metrics
  monitor_thread,  \* the sampler thread: "none", "init", "check", "polling", "append", "done"
  stop_event,      \* RerunServer._stop_event
  srvProc,         \* OS state of the server subprocess: "none", "running", "exited"
  srvOut,          \* what communicate() read from the dead subprocess's pipes
  sent,            \* the signals stop() sent to the subprocess, in order
  start_outcome,   \* history: how server.start() ended ("none", "returned", "raised")
  alive_check,     \* history: what server.is_running() returned ("none", "true", "false")
  stop_outcome,    \* history: how server.stop() ended ("none", "called", "returned", "raised")
  exit_snapshot,   \* history: what was still running when run_benchmark was left
  \* --- one client process (backends/rerun/client_py.py, main)
  argv,            \* the command-line options the client was started with
  cpc,             \* where main is
  cerr,            \* the exception being handled in, or escaping from, main
  parsed_size,     \* main's parsed_size
  cmetrics,        \* main's metrics (a ClientMetrics)
  interval,        \* main's interval, in ticks
  log_count,       \* main's log_count
  latencies,       \* main's latencies
  current_data,    \* the seed main's current_data was generated with
  start_time,      \* main's start_time, in ticks
  end_time,        \* main's end_time, in ticks
  now,             \* what time.time() returns, in ticks
  written,         \* what save_client_metrics wrote to the metrics file, in order
  raised_in,       \* history: the step of main that raised ("none" if none did)
  worst_oversleep, \* history: the longest time a sleep of the loop overran, in ticks
  \* --- the metrics records on their own (metrics.py)
  bench,           \* a BenchmarkResult
  agg,             \* what bench.aggregated_client_metrics returned
  outfile,         \* the text BenchmarkResult.save wrote
  reloaded,        \* what BenchmarkResult.load returned for that text
  \* --- the backend registry on its own (backends/__init__.py)
  registry,        \* BACKENDS: the (name, class) items of the dict, in its order
  instances,       \* the class of every backend instance made so far
  calls,           \* how many registry functions have been called
  last_call,       \* the last call and what it returned or raised
  before,          \* history: BACKENDS before the last call
  registered,      \* history: the names in order of first registration, and
                   \* the class last registered under each
  \* --- one RerunServer called in any order (backends/rerun/server.py)
  self,          \* the fields of the RerunServer object
  subprocs,        \* OS state of every subprocess start() has spawned
  threads,         \* every sampler thread start() has started
  call,            \* the start() or stop() call in progress, and the calls made
  lifecycle        \* history: the lifecycle state the calls so far amount to

orchVars ==
  <<config, keep_tmpdir, pc, exc, client_procs, client_idx, group_idx,
    inst_idx, wait_idx, result, saved>>
ctlVars ==
  <<spc, srv_error, proc, temp_dir_set, metrics, stop_event, sent>>
histVars == <<start_outcome, alive_check, stop_outcome, exit_snapshot>>
clientVars ==
  <<argv, cpc, cerr, parsed_size, cmetrics, interval, log_count, latencies,
    current_data, start_time, end_time, now, written, raised_in,
    worst_oversleep>>
metricsVars == <<bench, agg, outfile, reloaded>>
registryVars == <<registry, instances, calls, last_call, before, registered>>
serverVars == <<self, subprocs, threads, call, lifecycle>>
unitVars == <<clientVars, metricsVars, registryVars, serverVars>>
vars ==
  <<unitVars, config, keep_tmpdir, pc, exc, tmpdir, files, client_procs, client_idx,
    group_idx, inst_idx, wait_idx, cstate, result, saved, spc, srv_error, proc,
    temp_dir_set, metrics, monitor_thread, stop_event, srvProc, srvOut, sent,
    start_outcome, alive_check, stop_outcome, exit_snapshot>>

\* metrics.py: BenchmarkResult(...) as run_benchmark constructs it; the server
\* metrics are held by reference once get_metrics() has been called.
NewResult == [has_server_metrics |-> FALSE, client_metrics |-> <<>>]

\* What is true at the moment control leaves run_benchmark.
NoSnapshot ==
  [taken |-> FALSE, tmpdir |-> "none", clients_running |-> FALSE,
   server_running |-> FALSE]
Snapshot(dir, running, server) ==
  [taken |-> TRUE, tmpdir |-> dir, clients_running |-> running,
   server_running |-> server]

\* The value of every variable of a component that is not being followed.
Unused == <<>>

\* bench.aggregated_client_metrics has not been read, bench has not been
\* saved, no file has been loaded.
NoSnapshotDict == [name |-> "", backend |-> [type |-> ""], clients |-> <<>>]
NotAggregated == [done |-> FALSE, value |-> AggregatedClientMetrics]
NotSaved == [done |-> FALSE, text |-> JObject(<<>>)]
NotLoaded ==
  [done |-> FALSE, value |-> BenchmarkResult("", "", "", "", NoSnapshotDict)]

\* No record is aggregated or saved.
MetricsIdle ==
  /\ bench = Unused
  /\ agg = Unused
  /\ outfile = Unused
  /\ reloaded = Unused

\* The registry as the module body leaves it at line 12: BACKENDS = {}.
EmptyRegistry == <<>>
NoCall ==
  [op |-> "none", name |-> "", raised |-> FALSE, available |-> <<>>,
   instance |-> 0, names |-> <<>>]

\* No registry function is called.
RegistryIdle ==
  /\ registry = Unused
  /\ instances = Unused
  /\ calls = Unused
  /\ last_call = Unused
  /\ before = Unused
  /\ registered = Unused

\* No server controller is driven on its own.
ServerIdle ==
  /\ self = Unused
  /\ subprocs = Unused
  /\ threads = Unused
  /\ call = Unused
  /\ lifecycle = Unused

\* No client process is followed.
ClientIdle ==
  /\ argv = Unused
  /\ cpc = Unused
  /\ cerr = Unused
  /\ parsed_size = Unused
  /\ cmetrics = Unused
  /\ interval = Unused
  /\ log_count = Unused
  /\ latencies = Unused
  /\ current_data = Unused
  /\ start_time = Unused
  /\ end_time = Unused
  /\ now = Unused
  /\ written = Unused
  /\ raised_in = Unused
  /\ worst_oversleep = Unused

Init ==
  /\ config \in Configs
  /\ keep_tmpdir \in BOOLEAN
  /\ pc = "get_backend"
  /\ exc = NoError
  /\ tmpdir = "none"
  /\ files = <<>>
  /\ client_procs = <<>>
  /\ client_idx = 0
  /\ group_idx = 1
  /\ inst_idx = 0
  /\ wait_idx = 1
  /\ cstate = <<>>
  /\ result = NewResult
  /\ saved = FALSE
  /\ spc = "idle"
  /\ srv_error = NoError
  /\ proc = FALSE
  /\ temp_dir_set = FALSE
  /\ metrics = NewServerMetrics
  /\ monitor_thread = "none"
  /\ stop_event = FALSE
  /\ srvProc = "none"
  /\ srvOut = [stdout |-> "", stderr |-> ""]
  /\ sent = <<>>
  /\ start_outcome = "none"
  /\ alive_check = "none"
  /\ stop_outcome = "none"
  /\ exit_snapshot = NoSnapshot
  /\ ClientIdle
  /\ MetricsIdle
  /\ RegistryIdle
  /\ ServerIdle

\* ------------------------------------------------- the server subprocess
\* The server subprocess dies on its own (it failed to bind, it crashed).
ServerProcExit ==
  /\ srvProc = "running"
  /\ srvProc' = "exited"
  /\ UNCHANGED <<unitVars, orchVars, ctlVars, histVars, tmpdir, files, cstate,
                 monitor_thread, srvOut>>

\* --------------------------------------------------- RerunServer.start()
\* server.py 55-69: the fields are reset, the port reclaimed, the subprocess
\* spawned.  Popen raises OSError when the rerun executable cannot be run.
StartSpawn ==
  /\ spc = "start_spawn"
  /\ temp_dir_set' = TRUE
  /\ metrics' = NewServerMetrics
  /\ stop_event' = FALSE
  /\ \/ /\ proc' = TRUE
        /\ srvProc' = "running"
        /\ spc' = "start_poll"
        /\ UNCHANGED srv_error
     \/ /\ srv_error' = Error("OSError", <<"rerun">>)
        /\ spc' = "raised"
        /\ UNCHANGED <<proc, srvProc>>
  /\ UNCHANGED <<unitVars, orchVars, histVars, tmpdir, files, cstate, monitor_thread,
                 srvOut, sent>>

\* StartPoll with the bookkeeping done before the exit status is looked at:
\* start_time is recorded and the sampler started even for a dead subprocess.
StartPoll_RecordFirst ==
  /\ spc = "start_poll"
  /\ metrics' = [metrics EXCEPT !.start_time = 1]
  /\ monitor_thread' = "init"
  /\ IF srvProc # "running"
       THEN /\ srvOut' \in ServerOutputs
            /\ srv_error' = Error("Rerun server failed to start.",
                                  <<srvOut'.stdout, srvOut'.stderr>>)
            /\ spc' = "raised"
       ELSE /\ spc' = "returned"
            /\ UNCHANGED <<srv_error, srvOut>>
  /\ UNCHANGED <<unitVars, orchVars, histVars, tmpdir, files, cstate, proc,
                 temp_dir_set, stop_event, srvProc, sent>>

\* server.py 71-87: after the warm-up delay the exit status is polled.  A dead
\* subprocess makes start() raise with what communicate() read from the pipes;
\* otherwise start_time is recorded and the sampler thread is started.
StartPoll ==
  /\ spc = "start_poll"
  /\ IF srvProc # "running"
       THEN /\ srvOut' \in ServerOutputs
            /\ srv_error' = Error("Rerun server failed to start.",
                                  <<srvOut'.stdout, srvOut'.stderr>>)
            /\ spc' = "raised"
            /\ UNCHANGED <<metrics, monitor_thread>>
       ELSE /\ metrics' = [metrics EXCEPT !.start_time = 1]
            /\ monitor_thread' = "init"
            /\ spc' = "returned"
            /\ UNCHANGED <<srv_error, srvOut>>
  /\ UNCHANGED <<unitVars, orchVars, histVars, tmpdir, files, cstate, proc,
                 temp_dir_set, stop_event, srvProc, sent>>

\* ------------------------------------------- RerunServer._monitor_memory()
\* server.py 90-98: the thread returns at once when there is no subprocess
\* handle or psutil no longer finds the process.
SamplerInit ==
  /\ monitor_thread = "init"
  /\ \/ /\ proc
        /\ monitor_thread' = "check"
     \/ /\ ~proc \/ srvProc # "running"
        /\ monitor_thread' = "done"
  /\ UNCHANGED <<unitVars, orchVars, ctlVars, histVars, tmpdir, files, cstate, srvProc,
                 srvOut>>

\* SamplerCheck with a loop that never looks at the stop event.
SamplerCheck_IgnoreStop ==
  /\ monitor_thread = "check"
  /\ monitor_thread' = "polling"
  /\ UNCHANGED <<unitVars, orchVars, ctlVars, histVars, tmpdir, files, cstate, srvProc,
                 srvOut>>

\* server.py 100: the loop condition reads the stop event.
SamplerCheck ==
  /\ monitor_thread = "check"
  /\ monitor_thread' = IF stop_event THEN "done" ELSE "polling"
  /\ UNCHANGED <<unitVars, orchVars, ctlVars, histVars, tmpdir, files, cstate, srvProc,
                 srvOut>>

\* server.py 101-103, 111-116: one poll.  process.memory_info() returns the
\* memory of the live process, or the process is gone (NoSuchProcess: the loop
\* breaks), or another exception is swallowed and the thread waits on the stop
\* event for the interval.
SamplerPoll ==
  /\ monitor_thread = "polling"
  /\ \/ /\ srvProc = "running"
        /\ Len(metrics.memory_samples) < MaxSamples
        /\ monitor_thread' = "append"
     \/ /\ srvProc # "running"
        /\ monitor_thread' = "done"
     \/ /\ monitor_thread' = "check"
  /\ UNCHANGED <<unitVars, orchVars, ctlVars, histVars, tmpdir, files, cstate, srvProc,
                 srvOut>>

\* server.py 105-109, 116: the sample is made from what the poll returned
\* and appended to self._metrics.memory_samples; then the thread waits on
\* the stop event for the interval.
SamplerAppend ==
  /\ monitor_thread = "append"
  /\ metrics' = [metrics EXCEPT
                   !.memory_samples = Append(@, [memory_mb |-> 1])]
  /\ monitor_thread' = "check"
  /\ UNCHANGED <<unitVars, orchVars, histVars, tmpdir, files, cstate, spc, srv_error,
                 proc, temp_dir_set, stop_event, srvProc, srvOut, sent>>

\* ---------------------------------------------------- RerunServer.stop()
\* server.py 119: the stop event is set.
StopSignal ==
  /\ spc = "stop_signal"
  /\ stop_event' = TRUE
  /\ spc' = "stop_join"
  /\ UNCHANGED <<unitVars, orchVars, histVars, tmpdir, files, cstate, srv_error, proc,
                 temp_dir_set, metrics, monitor_thread, srvProc, srvOut, sent>>

\* StopJoin with join() called without a timeout: stop() goes on only when
\* the thread has ended.
StopJoin_Unbounded ==
  /\ spc = "stop_join"
  /\ monitor_thread \in {"none", "done"}
  /\ metrics' = [metrics EXCEPT !.end_time = 1]
  /\ spc' = "stop_terminate"
  /\ UNCHANGED <<unitVars, orchVars, histVars, tmpdir, files, cstate, srv_error, proc,
                 temp_dir_set, monitor_thread, stop_event, srvProc, srvOut,
                 sent>>

\* server.py 121-124: join(timeout=2.0) returns when the thread has ended or
\* when the timeout has elapsed with the thread still alive; end_time is
\* recorded either way.
StopJoin ==
  /\ spc = "stop_join"
  /\ metrics' = [metrics EXCEPT !.end_time = 1]
  /\ spc' = "stop_terminate"
  /\ UNCHANGED <<unitVars, orchVars, histVars, tmpdir, files, cstate, srv_error, proc,
                 temp_dir_set, monitor_thread, stop_event, srvProc, srvOut,
                 sent>>

\* StopTerminate with kill() in place of terminate(): the subprocess is
\* force-killed at once.
StopTerminate_KillAtOnce ==
  /\ spc = "stop_terminate"
  /\ IF proc
       THEN /\ sent' = IF srvProc = "running" THEN Append(sent, "SIGKILL")
                       ELSE sent
            /\ spc' = "stop_wait"
       ELSE /\ spc' = "stop_rrd"
            /\ UNCHANGED sent
  /\ UNCHANGED <<unitVars, orchVars, histVars, tmpdir, files, cstate, srv_error, proc,
                 temp_dir_set, metrics, monitor_thread, stop_event, srvProc,
                 srvOut>>

\* server.py 126-127: with a subprocess handle, terminate() is sent (Popen
\* sends nothing to a subprocess it has already seen dead).
StopTerminate ==
  /\ spc = "stop_terminate"
  /\ IF proc
       THEN /\ sent' = IF srvProc = "running" THEN Append(sent, "SIGTERM")
                       ELSE sent
            /\ spc' = "stop_wait"
       ELSE /\ spc' = "stop_rrd"
            /\ UNCHANGED sent
  /\ UNCHANGED <<unitVars, orchVars, histVars, tmpdir, files, cstate, srv_error, proc,
                 temp_dir_set, metrics, monitor_thread, stop_event, srvProc,
                 srvOut>>

\* server.py 128-133: wait(timeout=5.0); the subprocess exits in time, or the
\* wait times out, kill() is sent and the subprocess is waited for.  The
\* handle is dropped.
StopWait ==
  /\ spc = "stop_wait"
  /\ \/ /\ srvProc' = "exited"
        /\ UNCHANGED sent
     \/ /\ srvProc = "running"
        /\ sent' = Append(sent, "SIGKILL")
        /\ srvProc' = "exited"
  /\ proc' = FALSE
  /\ spc' = "stop_rrd"
  /\ UNCHANGED <<unitVars, orchVars, histVars, tmpdir, files, cstate, srv_error,
                 temp_dir_set, metrics, monitor_thread, stop_event, srvOut>>

\* server.py 136-137: the size of the rrd file is measured when the file is
\* there.  rrd_file raises when start() was never called; exists() and stat()
\* raise OSError when the file system refuses.
StopRrd ==
  /\ spc = "stop_rrd"
  /\ \/ /\ temp_dir_set
        /\ \E size \in {0, 1} :
             metrics' = [metrics EXCEPT !.rrd_file_size_mb = size]
        /\ spc' = "returned"
        /\ UNCHANGED srv_error
     \/ /\ srv_error' = IF temp_dir_set THEN Error("OSError", <<"benchmark.rrd">>)
                        ELSE Error("Server not started", <<>>)
        /\ spc' = "raised"
        /\ UNCHANGED metrics
  /\ UNCHANGED <<unitVars, orchVars, histVars, tmpdir, files, cstate, proc,
                 temp_dir_set, monitor_thread, stop_event, srvProc, srvOut,
                 sent>>

\* server.py 143-144: is_running().
is_running == proc /\ srvProc = "running"


\* ------------------------------------------------------ loading metrics
\* metrics.py 292-294 for every file a client can have written: json.load of
\* the text, then ClientMetrics.from_dict of the parsed dict.
LoadedRecords ==
  [content \in {c \in UNION {FileContents(ClientId(idx)) : idx \in 0..MaxClients} :
                   c.valid_json} |->
     ClientMetrics_from_dict(ClientMetrics_parse(FileText(content)))]

\* metrics.py 291-294: load_client_metrics parses the file and builds the
\* record from the parsed dict; it raises when the file is not JSON.
load_client_metrics(path) ==
  IF files[path].valid_json
    THEN [ok |-> TRUE, value |-> LoadedRecords[files[path]]]
    ELSE [ok |-> FALSE, value |-> ClientRecord("")]

\* LoadLoop without the exists() test: a missing file fails the load.
RECURSIVE LoadLoop_NoExistsTest(_, _, _)
LoadLoop_NoExistsTest(procs, k, acc) ==
  IF k > Len(procs)
    THEN [ok |-> TRUE, client_metrics |-> acc]
    ELSE IF procs[k].metrics_file \in DOMAIN files
      THEN LET got == load_client_metrics(procs[k].metrics_file)
           IN  IF got.ok
                 THEN LoadLoop_NoExistsTest(procs, k + 1,
                                            Append(acc, got.value))
                 ELSE [ok |-> FALSE, client_metrics |-> acc]
      ELSE [ok |-> FALSE, client_metrics |-> acc]

\* runner.py 117-120: the loop over client_procs, from entry k on, with the
\* records appended so far; it ends at the first file that fails to load.
RECURSIVE LoadLoop(_, _, _)
LoadLoop(procs, k, acc) ==
  IF k > Len(procs)
    THEN [ok |-> TRUE, client_metrics |-> acc]
    ELSE IF procs[k].metrics_file \in DOMAIN files
      THEN LET got == load_client_metrics(procs[k].metrics_file)
           IN  IF got.ok
                 THEN LoadLoop(procs, k + 1, Append(acc, got.value))
                 ELSE [ok |-> FALSE, client_metrics |-> acc]
      ELSE LoadLoop(procs, k + 1, acc)

\* metrics.py 237-239: BenchmarkResult.aggregated_client_metrics.
aggregated_client_metrics == from_clients(result.client_metrics)

\* ------------------------------------------------------ client processes
\* A launched client process ends.  client_py.py 134-135 and metrics.py
\* 284-288: a client that reaches its finally block creates the directory of
\* the metrics file if needed and writes the file; one that dies before
\* leaves no file, one that dies while writing leaves a broken file.
ClientExit(k) ==
  /\ cstate[k] = "running"
  /\ cstate' = [cstate EXCEPT ![k] = "exited"]
  /\ \/ UNCHANGED <<files, tmpdir>>
     \/ /\ tmpdir # "none"
        /\ \E content \in FileContents(ClientId(k - 1)) :
             files' = (client_procs[k].metrics_file :> content) @@ files
        /\ tmpdir' = "exists"
  /\ UNCHANGED <<unitVars, orchVars, ctlVars, histVars, monitor_thread, srvProc, srvOut>>

\* ---------------------------------------------------------- run_benchmark
\* GetBackend with the temporary directory made before the lookup.
GetBackend_AfterMkdtemp ==
  /\ pc = "get_backend"
  /\ tmpdir' = "exists"
  /\ IF config.type \in Range(BACKENDS)
       THEN /\ pc' = "start_server"
            /\ UNCHANGED <<exc, exit_snapshot>>
       ELSE /\ exc' = Error("Unknown backend", BACKENDS)
            /\ pc' = "raised"
            /\ exit_snapshot' = Snapshot(tmpdir', FALSE, FALSE)
  /\ result' = NewResult
  /\ UNCHANGED <<unitVars, config, keep_tmpdir, files, client_procs, client_idx,
                 group_idx, inst_idx, wait_idx, cstate, saved, ctlVars,
                 monitor_thread, srvProc, srvOut, start_outcome, alive_check,
                 stop_outcome>>

\* runner.py 34-41 and backends/__init__.py 20-25: the backend is looked up
\* and the result object created.
GetBackend ==
  /\ pc = "get_backend"
  /\ IF config.type \in Range(BACKENDS)
       THEN /\ pc' = "mkdtemp"
            /\ UNCHANGED <<exc, exit_snapshot>>
       ELSE /\ exc' = Error("Unknown backend", BACKENDS)
            /\ pc' = "raised"
            /\ exit_snapshot' = Snapshot(tmpdir, FALSE, FALSE)
  /\ result' = NewResult
  /\ UNCHANGED <<unitVars, config, keep_tmpdir, tmpdir, files, client_procs, client_idx,
                 group_idx, inst_idx, wait_idx, cstate, saved, ctlVars,
                 monitor_thread, srvProc, srvOut, start_outcome, alive_check,
                 stop_outcome>>

\* runner.py 43: tempfile.mkdtemp().
Mkdtemp ==
  /\ pc = "mkdtemp"
  /\ tmpdir' = "exists"
  /\ pc' = "start_server"
  /\ UNCHANGED <<unitVars, config, keep_tmpdir, exc, files, client_procs, client_idx,
                 group_idx, inst_idx, wait_idx, cstate, result, saved, ctlVars,
                 histVars, monitor_thread, srvProc, srvOut>>

\* runner.py 46-52: the server is created and server.start() called.
CallStart ==
  /\ pc = "start_server"
  /\ pc' = "in_start"
  /\ spc' = "start_spawn"
  /\ UNCHANGED <<unitVars, config, keep_tmpdir, exc, tmpdir, files, client_procs,
                 client_idx, group_idx, inst_idx, wait_idx, cstate, result,
                 saved, srv_error, proc, temp_dir_set, metrics, stop_event,
                 sent, histVars, monitor_thread, srvProc, srvOut>>

\* runner.py 52-54: server.start() has ended.  It is called outside the inner
\* try block: its exception goes straight to the outer finally.
AfterStart ==
  /\ pc = "in_start"
  /\ spc \in {"returned", "raised"}
  /\ start_outcome' = spc
  /\ spc' = "idle"
  /\ IF spc = "returned"
       THEN /\ pc' = "check_running"
            /\ UNCHANGED exc
       ELSE /\ exc' = srv_error
            /\ pc' = "cleanup"
  /\ UNCHANGED <<unitVars, config, keep_tmpdir, tmpdir, files, client_procs, client_idx,
                 group_idx, inst_idx, wait_idx, cstate, result, saved,
                 srv_error, proc, temp_dir_set, metrics, stop_event, sent,
                 alive_check, stop_outcome, exit_snapshot, monitor_thread,
                 srvProc, srvOut>>

\* CheckRunning without the raise: the clients are launched whatever
\* is_running() returned.
CheckRunning_NoRaise ==
  /\ pc = "check_running"
  /\ alive_check' = IF is_running THEN "true" ELSE "false"
  /\ pc' = "launch"
  /\ UNCHANGED <<unitVars, config, keep_tmpdir, exc, tmpdir, files, client_procs,
                 client_idx, group_idx, inst_idx, wait_idx, cstate, result,
                 saved, ctlVars, start_outcome, stop_outcome, exit_snapshot,
                 monitor_thread, srvProc, srvOut>>

\* runner.py 55-63: after one second the liveness check; a dead server raises
\* "Server failed to start" inside the inner try block.
CheckRunning ==
  /\ pc = "check_running"
  /\ alive_check' = IF is_running THEN "true" ELSE "false"
  /\ IF is_running
       THEN /\ pc' = "launch"
            /\ UNCHANGED exc
       ELSE /\ exc' = Error("Server failed to start", <<>>)
            /\ pc' = "call_stop"
  /\ UNCHANGED <<unitVars, config, keep_tmpdir, tmpdir, files, client_procs, client_idx,
                 group_idx, inst_idx, wait_idx, cstate, result, saved, ctlVars,
                 start_outcome, stop_outcome, exit_snapshot, monitor_thread,
                 srvProc, srvOut>>

\* runner.py 66-72: a group whose language the backend does not support is
\* skipped with a warning.
SkipGroup ==
  /\ pc = "launch"
  /\ group_idx <= Len(config.clients)
  /\ config.clients[group_idx].language \notin Range(supported_languages)
  /\ group_idx' = group_idx + 1
  /\ UNCHANGED <<unitVars, config, keep_tmpdir, pc, exc, tmpdir, files, client_procs,
                 client_idx, inst_idx, wait_idx, cstate, result, saved,
                 ctlVars, histVars, monitor_thread, srvProc, srvOut>>

\* LaunchClient without "client_idx += 1".
LaunchClient_NoIncrement ==
  /\ pc = "launch"
  /\ group_idx <= Len(config.clients)
  /\ config.clients[group_idx].language \in Range(supported_languages)
  /\ LET client_id == ClientId(client_idx)
         metrics_file == MetricsFile(client_id)
     IN  \/ /\ client_procs' =
                 Append(client_procs,
                        [proc |-> Len(cstate) + 1,
                         metrics_file |-> metrics_file,
                         client_id |-> client_id])
            /\ cstate' = Append(cstate, "running")
            /\ UNCHANGED client_idx
            /\ IF inst_idx + 1 < config.clients[group_idx].count
                 THEN /\ inst_idx' = inst_idx + 1
                      /\ UNCHANGED group_idx
                 ELSE /\ inst_idx' = 0
                      /\ group_idx' = group_idx + 1
            /\ UNCHANGED <<pc, exc>>
         \/ /\ exc' = Error("OSError", <<"bench.backends.rerun.client_py">>)
            /\ pc' = "call_stop"
            /\ UNCHANGED <<client_procs, cstate, client_idx, inst_idx,
                           group_idx>>
  /\ UNCHANGED <<unitVars, config, keep_tmpdir, tmpdir, files, wait_idx, result, saved,
                 ctlVars, histVars, monitor_thread, srvProc, srvOut>>

\* runner.py 77-95 and client_py.py 21-52: one instance of the group is
\* started and recorded; after the last instance the next group is taken.
\* Popen raises OSError when the process cannot be created.
LaunchClient ==
  /\ pc = "launch"
  /\ group_idx <= Len(config.clients)
  /\ config.clients[group_idx].language \in Range(supported_languages)
  /\ LET client_id == ClientId(client_idx)
         metrics_file == MetricsFile(client_id)
     IN  \/ /\ client_procs' =
                 Append(client_procs,
                        [proc |-> Len(cstate) + 1,
                         metrics_file |-> metrics_file,
                         client_id |-> client_id])
            /\ cstate' = Append(cstate, "running")
            /\ client_idx' = client_idx + 1
            /\ IF inst_idx + 1 < config.clients[group_idx].count
                 THEN /\ inst_idx' = inst_idx + 1
                      /\ UNCHANGED group_idx
                 ELSE /\ inst_idx' = 0
                      /\ group_idx' = group_idx + 1
            /\ UNCHANGED <<pc, exc>>
         \/ /\ exc' = Error("OSError", <<"bench.backends.rerun.client_py">>)
            /\ pc' = "call_stop"
            /\ UNCHANGED <<client_procs, cstate, client_idx, inst_idx,
                           group_idx>>
  /\ UNCHANGED <<unitVars, config, keep_tmpdir, tmpdir, files, wait_idx, result, saved,
                 ctlVars, histVars, monitor_thread, srvProc, srvOut>>

\* runner.py 66: the loop over the client groups has ended.
LaunchDone ==
  /\ pc = "launch"
  /\ group_idx > Len(config.clients)
  /\ pc' = "launched"
  /\ UNCHANGED <<unitVars, config, keep_tmpdir, exc, tmpdir, files, client_procs,
                 client_idx, group_idx, inst_idx, wait_idx, cstate, result,
                 saved, ctlVars, histVars, monitor_thread, srvProc, srvOut>>

\* runner.py 97-101: without any client the run raises "No clients started".
CheckClients ==
  /\ pc = "launched"
  /\ IF client_procs = <<>>
       THEN /\ exc' = Error("No clients started", <<>>)
            /\ pc' = "call_stop"
       ELSE /\ pc' = "wait"
            /\ UNCHANGED exc
  /\ UNCHANGED <<unitVars, config, keep_tmpdir, tmpdir, files, client_procs, client_idx,
                 group_idx, inst_idx, wait_idx, cstate, result, saved, ctlVars,
                 histVars, monitor_thread, srvProc, srvOut>>

\* WaitClient with the metrics collected before the server is stopped.
WaitClient_CollectFirst ==
  /\ pc = "wait"
  /\ cstate[client_procs[wait_idx].proc] = "exited"
  /\ wait_idx' = wait_idx + 1
  /\ pc' = IF wait_idx = Len(client_procs) THEN "collect" ELSE "wait"
  /\ UNCHANGED <<unitVars, config, keep_tmpdir, exc, tmpdir, files, client_procs,
                 client_idx, group_idx, inst_idx, cstate, result, saved,
                 ctlVars, histVars, monitor_thread, srvProc, srvOut>>

\* runner.py 103-107: proc.wait() on the next client returns once that
\* process has exited; after the last one the inner try block is left.
WaitClient ==
  /\ pc = "wait"
  /\ cstate[client_procs[wait_idx].proc] = "exited"
  /\ wait_idx' = wait_idx + 1
  /\ pc' = IF wait_idx = Len(client_procs) THEN "call_stop" ELSE "wait"
  /\ UNCHANGED <<unitVars, config, keep_tmpdir, exc, tmpdir, files, client_procs,
                 client_idx, group_idx, inst_idx, cstate, result, saved,
                 ctlVars, histVars, monitor_thread, srvProc, srvOut>>

\* runner.py 109-111: the inner finally block calls server.stop().
CallStop ==
  /\ pc = "call_stop"
  /\ pc' = "in_stop"
  /\ spc' = "stop_signal"
  /\ stop_outcome' = "called"
  /\ UNCHANGED <<unitVars, config, keep_tmpdir, exc, tmpdir, files, client_procs,
                 client_idx, group_idx, inst_idx, wait_idx, cstate, result,
                 saved, srv_error, proc, temp_dir_set, metrics, stop_event,
                 sent, start_outcome, alive_check, exit_snapshot,
                 monitor_thread, srvProc, srvOut>>

\* runner.py 111-113: server.stop() has ended.  Nothing catches what it
\* raises; when it returns, an exception of the try block goes on to the outer
\* finally and a normal run goes on to collect the metrics.
AfterStop ==
  /\ pc = "in_stop"
  /\ spc \in {"returned", "raised"}
  /\ stop_outcome' = spc
  /\ spc' = "idle"
  /\ IF spc = "raised"
       THEN /\ exc' = srv_error
            /\ pc' = "cleanup"
       ELSE /\ pc' = IF exc = NoError THEN "collect" ELSE "cleanup"
            /\ UNCHANGED exc
  /\ UNCHANGED <<unitVars, config, keep_tmpdir, tmpdir, files, client_procs, client_idx,
                 group_idx, inst_idx, wait_idx, cstate, result, saved,
                 srv_error, proc, temp_dir_set, metrics, stop_event, sent,
                 start_outcome, alive_check, exit_snapshot, monitor_thread,
                 srvProc, srvOut>>

\* runner.py 113-120: the server metrics are taken and the metrics file of
\* every client that has one is loaded.
Collect ==
  /\ pc = "collect"
  /\ LET got == LoadLoop(client_procs, 1, result.client_metrics)
     IN  /\ result' = [has_server_metrics |-> TRUE,
                       client_metrics |-> got.client_metrics]
         /\ exc' = IF got.ok THEN exc ELSE Error("JSONDecodeError", <<>>)
  /\ pc' = "cleanup"
  /\ UNCHANGED <<unitVars, config, keep_tmpdir, tmpdir, files, client_procs, client_idx,
                 group_idx, inst_idx, wait_idx, cstate, saved, ctlVars,
                 histVars, monitor_thread, srvProc, srvOut>>

\* Cleanup with the removal after the try block instead of in its finally:
\* the directory is removed only when nothing was raised.
Cleanup_OnlyOnSuccess ==
  /\ pc = "cleanup"
  /\ IF keep_tmpdir \/ exc # NoError
       THEN UNCHANGED <<tmpdir, files>>
       ELSE /\ tmpdir' = "removed"
            /\ files' = <<>>
  /\ pc' = IF exc = NoError THEN "returned" ELSE "raised"
  /\ exit_snapshot' =
       Snapshot(tmpdir',
                \E k \in 1..Len(cstate) : cstate[k] = "running",
                srvProc = "running")
  /\ UNCHANGED <<unitVars, config, keep_tmpdir, exc, client_procs, client_idx,
                 group_idx, inst_idx, wait_idx, cstate, result, saved, ctlVars,
                 start_outcome, alive_check, stop_outcome, monitor_thread,
                 srvProc, srvOut>>

\* runner.py 122-128: the outer finally block removes the temporary directory
\* unless it is to be kept; then the result is returned or the exception
\* leaves run_benchmark.
Cleanup ==
  /\ pc = "cleanup"
  /\ IF keep_tmpdir
       THEN UNCHANGED <<tmpdir, files>>
       ELSE /\ tmpdir' = "removed"
            /\ files' = <<>>
  /\ pc' = IF exc = NoError THEN "returned" ELSE "raised"
  /\ exit_snapshot' =
       Snapshot(tmpdir',
                \E k \in 1..Len(cstate) : cstate[k] = "running",
                srvProc = "running")
  /\ UNCHANGED <<unitVars, config, keep_tmpdir, exc, client_procs, client_idx,
                 group_idx, inst_idx, wait_idx, cstate, result, saved, ctlVars,
                 start_outcome, alive_check, stop_outcome, monitor_thread,
                 srvProc, srvOut>>

\* runner.py 201-206: main prints the returned result and saves it.
SaveResult ==
  /\ pc = "returned"
  /\ saved' = TRUE
  /\ pc' = "done"
  /\ UNCHANGED <<unitVars, config, keep_tmpdir, exc, tmpdir, files, client_procs,
                 client_idx, group_idx, inst_idx, wait_idx, cstate, result,
                 ctlVars, histVars, monitor_thread, srvProc, srvOut>>

Next ==
  \/ GetBackend
  \/ Mkdtemp
  \/ CallStart
  \/ StartSpawn
  \/ StartPoll
  \/ AfterStart
  \/ CheckRunning
  \/ SkipGroup
  \/ LaunchClient
  \/ LaunchDone
  \/ CheckClients
  \/ WaitClient
  \/ CallStop
  \/ StopSignal
  \/ StopJoin
  \/ StopTerminate
  \/ StopWait
  \/ StopRrd
  \/ AfterStop
  \/ Collect
  \/ Cleanup
  \/ SaveResult
  \/ ServerProcExit
  \/ SamplerInit
  \/ SamplerCheck
  \/ SamplerPoll
  \/ SamplerAppend
  \/ \E k \in 1..Len(cstate) : ClientExit(k)

Spec == Init /\ [][Next]_vars

\* The configurations followed where progress is at stake: a skipped group
\* before a launched one, two clients in one group, and no client at all.
LiveConfigs ==
  {c \in Configs :
     c.clients \in {<<[language |-> "cpp", count |-> 1],
                      [language |-> "python", count |-> 1]>>,
                    <<[language |-> "python", count |-> 2]>>,
                    <<[language |-> "cpp", count |-> 1]>>}}

InitLive ==
  /\ Init
  /\ config \in LiveConfigs

\* The steps of the main thread: main, run_benchmark and the start() and
\* stop() calls it makes.
MainThread ==
  \/ GetBackend
  \/ Mkdtemp
  \/ CallStart
  \/ StartSpawn
  \/ StartPoll
  \/ AfterStart
  \/ CheckRunning
  \/ SkipGroup
  \/ LaunchClient
  \/ LaunchDone
  \/ CheckClients
  \/ WaitClient
  \/ CallStop
  \/ StopSignal
  \/ StopJoin
  \/ StopTerminate
  \/ StopWait
  \/ StopRrd
  \/ AfterStop
  \/ Collect
  \/ Cleanup
  \/ SaveResult

\* The main thread keeps running (every call it makes returns or raises: the
\* join and the first wait in stop() are bounded, and a subprocess that has
\* been killed dies), and every launched client process exits in the end.
\* Nothing is assumed about the sampler thread.
SpecRun ==
  /\ InitLive
  /\ [][Next]_vars
  /\ WF_vars(MainThread)
  /\ WF_vars(\E k \in 1..Len(cstate) : ClientExit(k))

\* The sampler is a started daemon thread of a live interpreter: it is
\* scheduled, and every call it makes returns.
SpecSampler ==
  /\ InitLive
  /\ [][Next]_vars
  /\ WF_vars(SamplerInit)
  /\ WF_vars(SamplerCheck)
  /\ WF_vars(SamplerPoll)
  /\ WF_vars(SamplerAppend)


\* ------------------------------------------ one client process (main)
\* Every variable of the orchestrator, the server controller and their
\* environment.
sysVars ==
  <<orchVars, ctlVars, histVars, tmpdir, files, cstate, monitor_thread,
    srvProc, srvOut>>

\* No benchmark is run: the orchestrator's variables stay at these values.
OrchIdle ==
  /\ config = [type |-> "rerun",
               clients |-> <<[language |-> "python", count |-> 1]>>]
  /\ keep_tmpdir = FALSE
  /\ pc = "idle"
  /\ exc = NoError
  /\ tmpdir = "none"
  /\ files = <<>>
  /\ client_procs = <<>>
  /\ client_idx = 0
  /\ group_idx = 1
  /\ inst_idx = 0
  /\ wait_idx = 1
  /\ cstate = <<>>
  /\ result = NewResult
  /\ saved = FALSE
  /\ spc = "idle"
  /\ srv_error = NoError
  /\ proc = FALSE
  /\ temp_dir_set = FALSE
  /\ metrics = NewServerMetrics
  /\ monitor_thread = "none"
  /\ stop_event = FALSE
  /\ srvProc = "none"
  /\ srvOut = [stdout |-> "", stderr |-> ""]
  /\ sent = <<>>
  /\ start_outcome = "none"
  /\ alive_check = "none"
  /\ stop_outcome = "none"
  /\ exit_snapshot = NoSnapshot

\* Time is counted in ticks of a tenth of a second: the ticks in
\* seconds_num / seconds_den seconds.
Ticks(seconds_num, seconds_den) == (10 * seconds_num) \div seconds_den

\* The text of a --size option, character by character.
Digit ==
  [c \in {"0", "1", "2", "3", "4", "5", "6", "7", "8", "9"} |->
     CASE c = "0" -> 0 [] c = "1" -> 1 [] c = "2" -> 2 [] c = "3" -> 3
       [] c = "4" -> 4 [] c = "5" -> 5 [] c = "6" -> 6 [] c = "7" -> 7
       [] c = "8" -> 8 [] c = "9" -> 9]

\* client_py.py 78: "x" in size.lower()
HasX(size) == \E k \in 1..Len(size) : size[k] \in {"x", "X"}

\* client_py.py 81: int(size) raises ValueError unless the text is a decimal
\* number.
IsDecimal(size) ==
  size # <<>> /\ \A k \in 1..Len(size) : size[k] \in DOMAIN Digit
RECURSIVE DecimalValue(_, _)
DecimalValue(size, acc) ==
  IF size = <<>> THEN acc
  ELSE DecimalValue(Tail(size), 10 * acc + Digit[Head(size)])
int(size) == DecimalValue(size, 0)

\* The options a client process is started with.  runner.py 74-81 passes
\* str(config.data.size), and config.py 32-50 accepts a whole number or a
\* "WxH" text for any data type; --frequency is any float, 0 included, and
\* --duration any float (a whole second and three tenths of one here).
ClientArgs ==
  [data_type : {"points3d", "image"},
   size : {<<"1", "0", "0">>, <<"4", "x", "4">>},
   frequency : {0, 2, 5, 10},
   duration : {Rat(1, 1), Rat(3, 10)}]

\* client_py.py 101: regen_interval.
regen_interval == 100

InitClient ==
  /\ OrchIdle
  /\ MetricsIdle
  /\ RegistryIdle
  /\ ServerIdle
  /\ argv \in ClientArgs
  /\ cpc = "parse"
  /\ cerr = NoError
  /\ parsed_size = PyInt(0)
  /\ cmetrics = ClientMetrics("", "", PyInt(0), 0)
  /\ interval = 0
  /\ log_count = 0
  /\ latencies = <<>>
  /\ current_data = 0
  /\ start_time = 0
  /\ end_time = 0
  /\ now = 0
  /\ written = <<>>
  /\ raised_in = "none"
  /\ worst_oversleep = 0

\* client_py.py 76-88: the size is parsed and the metrics record made, before
\* the try block: a ValueError of int() leaves main at once.
ParseSize ==
  /\ cpc = "parse"
  /\ IF argv.data_type = "image" /\ HasX(argv.size)
       THEN /\ parsed_size' = PyStr(argv.size)
            /\ cmetrics' = ClientMetrics(ClientId(0), argv.data_type,
                                         parsed_size', argv.frequency)
            /\ cpc' = "connect"
            /\ UNCHANGED <<cerr, raised_in>>
       ELSE IF IsDecimal(argv.size)
         THEN /\ parsed_size' = PyInt(int(argv.size))
              /\ cmetrics' = ClientMetrics(ClientId(0), argv.data_type,
                                           parsed_size', argv.frequency)
              /\ cpc' = "connect"
              /\ UNCHANGED <<cerr, raised_in>>
         ELSE /\ cerr' = Error("ValueError", argv.size)
              /\ raised_in' = "size"
              /\ cpc' = "exited"
              /\ UNCHANGED <<parsed_size, cmetrics>>
  /\ UNCHANGED <<sysVars, serverVars, metricsVars, registryVars, argv, interval, log_count, latencies, current_data,
                 start_time, end_time, now, written, worst_oversleep>>

\* client_py.py 90-94: rr.init and rr.connect_grpc, which may raise, then
\* time.sleep(0.5).
Connect ==
  /\ cpc = "connect"
  /\ \/ /\ now' = now + Ticks(1, 2)
        /\ cpc' = "interval"
        /\ UNCHANGED <<cerr, raised_in>>
     \/ /\ cerr' = Error("ConnectionError", <<>>)
        /\ raised_in' = "connect"
        /\ cpc' = "except"
        /\ UNCHANGED now
  /\ UNCHANGED <<sysVars, serverVars, metricsVars, registryVars, argv, parsed_size, cmetrics, interval, log_count,
                 latencies, current_data, start_time, end_time, written, worst_oversleep>>

\* client_py.py 96: interval = 1.0 / frequency.
ComputeInterval ==
  /\ cpc = "interval"
  /\ IF argv.frequency = 0
       THEN /\ cerr' = Error("ZeroDivisionError", <<>>)
            /\ raised_in' = "interval"
            /\ cpc' = "except"
            /\ UNCHANGED interval
       ELSE /\ interval' = Ticks(1, argv.frequency)
            /\ cpc' = "generate"
            /\ UNCHANGED <<cerr, raised_in>>
  /\ UNCHANGED <<sysVars, serverVars, metricsVars, registryVars, argv, parsed_size, cmetrics, log_count, latencies,
                 current_data, start_time, end_time, now, written, worst_oversleep>>

\* client_py.py 98-106: the counters are cleared, the first payload is
\* generated (which may raise) and the loop's window is fixed.
Generate ==
  /\ cpc = "generate"
  /\ log_count' = 0
  /\ latencies' = <<>>
  /\ \/ /\ current_data' = 0
        /\ start_time' = now
        /\ end_time' = now + Ticks(argv.duration.num, argv.duration.den)
        /\ cmetrics' = [cmetrics EXCEPT !.start_time = now]
        /\ cpc' = "loop"
        /\ UNCHANGED <<cerr, raised_in>>
     \/ /\ cerr' = Error("MemoryError", <<>>)
        /\ raised_in' = "generate"
        /\ cpc' = "except"
        /\ UNCHANGED <<current_data, start_time, end_time, cmetrics>>
  /\ UNCHANGED <<sysVars, serverVars, metricsVars, registryVars, argv, parsed_size, interval, now, written, worst_oversleep>>

\* client_py.py 108: while time.time() < end_time.
LoopTest ==
  /\ cpc = "loop"
  /\ cpc' = IF now < end_time THEN "publish" ELSE "finish"
  /\ UNCHANGED <<sysVars, serverVars, metricsVars, registryVars, argv, cerr, parsed_size, cmetrics, interval,
                 log_count, latencies, current_data, start_time, end_time,
                 now, written, raised_in, worst_oversleep>>

\* Regenerate with the test made on the count after the iteration.
Regenerate_AfterIncrement(count, data) ==
  IF (count + 1) % regen_interval = 0 THEN count + 1 ELSE data

\* client_py.py 109-110: the payload (named by the seed it was generated
\* with) is replaced by generate_data(data_type, parsed_size, seed=log_count)
\* when the count is a positive multiple of regen_interval.
Regenerate(count, data) ==
  IF count % regen_interval = 0 /\ count > 0 THEN count ELSE data

\* client_py.py 109-118: the payload is regenerated every regen_interval
\* iterations, rr.log is called and timed, and the latency is recorded; the
\* call takes one of the given numbers of ticks, or it raises.
PublishIn(durations) ==
  /\ cpc = "publish"
  /\ \/ \E d \in durations :
          /\ current_data' = Regenerate(log_count, current_data)
          /\ now' = now + d
          /\ latencies' = Append(latencies, d)
          /\ log_count' = log_count + 1
          /\ cpc' = "schedule"
          /\ UNCHANGED <<cerr, raised_in>>
     \/ /\ cerr' = Error("RuntimeError", <<>>)
        /\ raised_in' = "publish"
        /\ cpc' = "except"
        /\ UNCHANGED <<current_data, now, latencies, log_count>>
  /\ UNCHANGED <<sysVars, serverVars, metricsVars, registryVars, argv, parsed_size, cmetrics, interval, start_time,
                 end_time, written, worst_oversleep>>

\* A publish call takes up to MaxPublish ticks.
Publish == PublishIn(0..MaxPublish)

\* Schedule with the sleep measured from the end of the publish call: every
\* iteration sleeps one interval.
Schedule_Relative ==
  /\ cpc = "schedule"
  /\ \E o \in 0..MaxOversleep :
       /\ now' = now + interval + o
       /\ worst_oversleep' = IF o > worst_oversleep THEN o ELSE worst_oversleep
  /\ cpc' = "loop"
  /\ UNCHANGED <<sysVars, serverVars, metricsVars, registryVars, argv, cerr, parsed_size, cmetrics, interval,
                 log_count, latencies, current_data, start_time, end_time,
                 written, raised_in>>

\* client_py.py 120-124: the next tick is an absolute time, start_time +
\* log_count * interval; the loop sleeps until then when it is ahead, and a
\* sleep may overrun by one of the given numbers of ticks.
ScheduleWith(oversleeps) ==
  /\ cpc = "schedule"
  /\ LET next_time == start_time + log_count * interval
         sleep_time == next_time - now
     IN  IF sleep_time > 0
           THEN \E o \in oversleeps :
                  /\ now' = now + sleep_time + o
                  /\ worst_oversleep' =
                       IF o > worst_oversleep THEN o ELSE worst_oversleep
           ELSE UNCHANGED <<now, worst_oversleep>>
  /\ cpc' = "loop"
  /\ UNCHANGED <<sysVars, serverVars, metricsVars, registryVars, argv, cerr, parsed_size, cmetrics, interval,
                 log_count, latencies, current_data, start_time, end_time,
                 written, raised_in>>

\* A sleep overruns by up to MaxOversleep ticks.
Schedule == ScheduleWith(0..MaxOversleep)

\* Finish that copies the count but leaves the record's latencies as they
\* were.
Finish_CountOnly ==
  /\ cpc = "finish"
  /\ cmetrics' = [cmetrics EXCEPT !.end_time = now, !.log_count = log_count]
  /\ cpc' = "finally"
  /\ UNCHANGED <<sysVars, serverVars, metricsVars, registryVars, argv, cerr, parsed_size, interval, log_count,
                 latencies, current_data, start_time, end_time, now, written,
                 raised_in, worst_oversleep>>

\* client_py.py 126-128: after the loop the counters are copied into the
\* metrics record.
Finish ==
  /\ cpc = "finish"
  /\ cmetrics' = [cmetrics EXCEPT !.end_time = now, !.log_count = log_count,
                                  !.latencies_ms = latencies]
  /\ cpc' = "finally"
  /\ UNCHANGED <<sysVars, serverVars, metricsVars, registryVars, argv, cerr, parsed_size, interval, log_count,
                 latencies, current_data, start_time, end_time, now, written,
                 raised_in, worst_oversleep>>

\* client_py.py 130-132: the handler records str(e) and the end time.
Except ==
  /\ cpc = "except"
  /\ cmetrics' = [cmetrics EXCEPT !.errors = Append(@, cerr.type),
                                  !.end_time = now]
  /\ cpc' = "finally"
  /\ UNCHANGED <<sysVars, serverVars, metricsVars, registryVars, argv, cerr, parsed_size, interval, log_count,
                 latencies, current_data, start_time, end_time, now, written,
                 raised_in, worst_oversleep>>

\* Finally that writes the file only when nothing was raised.
Finally_OnlyOnSuccess ==
  /\ cpc = "finally"
  /\ written' = IF raised_in = "none"
                  THEN Append(written, save_client_metrics(cmetrics))
                  ELSE written
  /\ cpc' = "exited"
  /\ UNCHANGED <<sysVars, serverVars, metricsVars, registryVars, argv, cerr, parsed_size, cmetrics, interval,
                 log_count, latencies, current_data, start_time, end_time,
                 now, raised_in, worst_oversleep>>

\* client_py.py 134-135: the finally block writes the metrics file.
Finally ==
  /\ cpc = "finally"
  /\ written' = Append(written, save_client_metrics(cmetrics))
  /\ cpc' = "exited"
  /\ UNCHANGED <<sysVars, serverVars, metricsVars, registryVars, argv, cerr, parsed_size, cmetrics, interval,
                 log_count, latencies, current_data, start_time, end_time,
                 now, raised_in, worst_oversleep>>

NextClient ==
  \/ ParseSize
  \/ Connect
  \/ ComputeInterval
  \/ Generate
  \/ LoopTest
  \/ Publish
  \/ Schedule
  \/ Finish
  \/ Except
  \/ Finally

SpecClient == InitClient /\ [][NextClient]_vars

\* A long run of one client: MaxSeconds seconds at 10 Hz on a machine where
\* every publish call returns within the tick and no sleep overruns, so that
\* the loop makes 10 * MaxSeconds iterations.
InitLongRun ==
  /\ OrchIdle
  /\ MetricsIdle
  /\ RegistryIdle
  /\ ServerIdle
  /\ argv = [data_type |-> "points3d", size |-> <<"1", "0", "0">>,
             frequency |-> 10, duration |-> Rat(MaxSeconds, 1)]
  /\ cpc = "parse"
  /\ cerr = NoError
  /\ parsed_size = PyInt(0)
  /\ cmetrics = ClientMetrics("", "", PyInt(0), 0)
  /\ interval = 0
  /\ log_count = 0
  /\ latencies = <<>>
  /\ current_data = 0
  /\ start_time = 0
  /\ end_time = 0
  /\ now = 0
  /\ written = <<>>
  /\ raised_in = "none"
  /\ worst_oversleep = 0

NextLongRun ==
  \/ ParseSize
  \/ Connect
  \/ ComputeInterval
  \/ Generate
  \/ LoopTest
  \/ PublishIn({0})
  \/ ScheduleWith({0})
  \/ Finish
  \/ Except
  \/ Finally

SpecLongRun == InitLongRun /\ [][NextLongRun]_vars


\* ------------------------------------------- the metrics records (metrics.py)
\* A client record as a client process leaves it.
Sample(idx, data_type, data_size, count, lats, t0, t1, errs) ==
  [ClientMetrics(ClientId(idx), data_type, data_size, 10)
     EXCEPT !.log_count = count, !.latencies_ms = lats, !.start_time = t0,
            !.end_time = t1, !.errors = errs]

OneToHundred == [k \in 1..100 |-> k]

\* The records aggregated: a client that failed before its first publish, two
\* ordinary clients with different windows, one whose clock did not advance,
\* and one with the latencies 1, 2, ..., 100.
ClientSamples ==
  {Sample(0, "points3d", PyInt(100), 0, <<>>, 0, 0, <<"RuntimeError">>),
   Sample(1, "points3d", PyInt(100), 2, <<3, 1>>, 0, 4, <<>>),
   Sample(2, "text", PyInt(7), 3, <<2, 5, 2>>, 2, 4, <<>>),
   Sample(3, "mesh", PyInt(3), 2, <<4, 4>>, 5, 5, <<>>),
   Sample(4, "image", PyStr(<<"4", "x", "4">>), 100, OneToHundred, 0, 10,
          <<>>)}

ClientLists == UNION {[1..n -> ClientSamples] : n \in 0..MaxAggClients}

\* The server metrics of a run: none sampled, or two samples.
ServerSamples ==
  <<NewServerMetrics,
    [memory_samples |-> <<[timestamp |-> 1, memory_mb |-> 5],
                          [timestamp |-> 2, memory_mb |-> 8]>>,
     start_time |-> 1, end_time |-> 3, rrd_file_size_mb |-> 2]>>

ConfigSnapshots ==
  <<[name |-> "bench", backend |-> [type |-> "rerun"],
     clients |-> <<[language |-> "python", count |-> 2]>>],
    [name |-> "mixed", backend |-> [type |-> "rerun"],
     clients |-> <<[language |-> "cpp", count |-> 1],
                   [language |-> "python", count |-> 1]>>]>>

\* The results of two runs (the one-group run whose server was not sampled,
\* the two-group run whose server was), each with every list of client
\* records.
BenchmarkResults ==
  {[BenchmarkResult(ConfigSnapshots[run].name, "",
                    ConfigSnapshots[run].backend.type, "2026-01-01T00:00:00",
                    ConfigSnapshots[run])
      EXCEPT !.server_metrics = ServerSamples[run],
             !.client_metrics = clients] :
     run \in DOMAIN ConfigSnapshots, clients \in ClientLists}

InitMetrics ==
  /\ OrchIdle
  /\ ClientIdle
  /\ RegistryIdle
  /\ ServerIdle
  /\ bench \in BenchmarkResults
  /\ agg = NotAggregated
  /\ outfile = NotSaved
  /\ reloaded = NotLoaded

\* metrics.py 237-239: bench.aggregated_client_metrics is read.
Aggregate ==
  /\ ~agg.done
  /\ agg' = [done |-> TRUE, value |-> from_clients(bench.client_metrics)]
  /\ UNCHANGED <<sysVars, serverVars, clientVars, registryVars, bench, outfile, reloaded>>

\* metrics.py 253-264: bench.save(output_dir).
Save ==
  /\ ~outfile.done
  /\ outfile' = [done |-> TRUE, text |-> BenchmarkResult_save(bench)]
  /\ UNCHANGED <<sysVars, serverVars, clientVars, registryVars, bench, agg, reloaded>>

\* metrics.py 266-281: BenchmarkResult.load(path) of the file saved.
Load ==
  /\ outfile.done
  /\ ~reloaded.done
  /\ reloaded' = [done |-> TRUE, value |-> BenchmarkResult_load(outfile.text)]
  /\ UNCHANGED <<sysVars, serverVars, clientVars, registryVars, bench, agg, outfile>>

NextMetrics ==
  \/ Aggregate
  \/ Save
  \/ Load

SpecMetrics == InitMetrics /\ [][NextMetrics]_vars


\* ------------------------------- the backend registry (backends/__init__.py)
\* The names and classes registered.  The empty name is a str like any other.
BackendNames == {"", "rerun", "foxglove"}
BackendClasses == {"RerunBackend", "FoxgloveBackend"}

\* A dict keeps its items in insertion order.
Keys(d) == [k \in DOMAIN d |-> d[k].key]
HasKey(d, key) == \E k \in DOMAIN d : d[k].key = key
Lookup(d, key) == d[CHOOSE k \in DOMAIN d : d[k].key = key].value

\* d[key] = value that puts a key assigned again at the end of the order.
SetItem_MoveToEnd(d, key, value) ==
  Append(SelectSeq(d, LAMBDA item : item.key # key),
         [key |-> key, value |-> value])

\* d[key] = value: a new key is added at the end, a key already there keeps
\* its place and gets the new value.
SetItem(d, key, value) ==
  IF HasKey(d, key)
    THEN [k \in DOMAIN d |->
            IF d[k].key = key THEN [key |-> key, value |-> value] ELSE d[k]]
    ELSE Append(d, [key |-> key, value |-> value])

\* ", ".join(names): the names with the separator between them, as the
\* pieces of the text.
RECURSIVE Join(_, _)
Join(sep, names) ==
  IF names = <<>> THEN <<>>
  ELSE IF Len(names) = 1 THEN <<names[1]>>
  ELSE <<names[1], sep>> \o Join(sep, Tail(names))

\* A str is false when it has no characters.
IsEmptyText(pieces) == \A k \in DOMAIN pieces : pieces[k] = ""

InitRegistry ==
  /\ OrchIdle
  /\ ClientIdle
  /\ MetricsIdle
  /\ ServerIdle
  /\ registry = EmptyRegistry
  /\ instances = <<>>
  /\ calls = 0
  /\ last_call = NoCall
  /\ before = EmptyRegistry
  /\ registered = [order |-> <<>>, latest |-> <<>>]

\* backends/__init__.py 15-17: register_backend(name, backend_cls).
register_backend(name, backend_cls) ==
  /\ calls < MaxCalls
  /\ calls' = calls + 1
  /\ before' = registry
  /\ registry' = SetItem(registry, name, backend_cls)
  /\ last_call' = [NoCall EXCEPT !.op = "register", !.name = name]
  /\ registered' =
       [order |-> IF name \in Range(registered.order) THEN registered.order
                  ELSE Append(registered.order, name),
        latest |-> (name :> backend_cls) @@ registered.latest]
  /\ UNCHANGED <<sysVars, serverVars, clientVars, metricsVars, instances>>

\* backends/__init__.py 20-25: get_backend(name) raises ValueError("Unknown
\* backend: {name}. Available: {available}") or returns BACKENDS[name]().
get_backend(name) ==
  /\ calls < MaxCalls
  /\ calls' = calls + 1
  /\ before' = registry
  /\ IF ~HasKey(registry, name)
       THEN LET joined == Join(", ", Keys(registry))
                available == IF IsEmptyText(joined) THEN <<"none">> ELSE joined
            IN  /\ last_call' = [NoCall EXCEPT !.op = "get", !.name = name,
                                               !.raised = TRUE,
                                               !.available = available]
                /\ UNCHANGED instances
       ELSE /\ instances' = Append(instances, Lookup(registry, name))
            /\ last_call' = [NoCall EXCEPT !.op = "get", !.name = name,
                                           !.instance = Len(instances')]
  /\ UNCHANGED <<sysVars, serverVars, clientVars, metricsVars, registry, registered>>

\* backends/__init__.py 28-30: list_backends().
list_backends ==
  /\ calls < MaxCalls
  /\ calls' = calls + 1
  /\ before' = registry
  /\ last_call' = [NoCall EXCEPT !.op = "list", !.names = Keys(registry)]
  /\ UNCHANGED <<sysVars, serverVars, clientVars, metricsVars, registry, instances,
                 registered>>

NextRegistry ==
  \/ \E name \in BackendNames, backend_cls \in BackendClasses :
       register_backend(name, backend_cls)
  \/ \E name \in BackendNames : get_backend(name)
  \/ list_backends

SpecRegistry == InitRegistry /\ [][NextRegistry]_vars


\* ------------------------------------ one RerunServer, called in any order
\* Every variable that a call on the server object alone leaves as it is.
restVars == <<clientVars, metricsVars, registryVars, sysVars>>

\* metrics.py 21-28: a new ServerMetrics(); id tells the objects apart.
ServerMetricsObject(id) ==
  [id |-> id, memory_samples |-> <<>>, start_time |-> 0, end_time |-> 0,
   rrd_file_size_mb |-> 0]

\* server.py 39-45: RerunServer.__init__; no call has been made.
InitServer ==
  /\ OrchIdle
  /\ ClientIdle
  /\ MetricsIdle
  /\ RegistryIdle
  /\ self = [proc |-> 0, temp_dir |-> FALSE,
               metrics |-> ServerMetricsObject(0), monitor_thread |-> 0,
               stop_event |-> FALSE]
  /\ subprocs = <<>>
  /\ threads = <<>>
  /\ call = [op |-> "none", at |-> "idle", starts |-> 0, stops |-> 0,
             error |-> NoError]
  /\ lifecycle = "NotStarted"

\* A subprocess dies on its own.  The controller's own subprocess dying
\* after start() returned is the failure of a running server.
SrvProcExit(p) ==
  /\ subprocs[p] = "running"
  /\ subprocs' = [subprocs EXCEPT ![p] = "exited"]
  /\ lifecycle' = IF lifecycle = "Running" /\ self.proc = p
                    THEN "Failed" ELSE lifecycle
  /\ UNCHANGED <<restVars, self, threads, call>>

\* server.py 54-58: start() is entered, whatever was called before; the
\* directory is set, a new ServerMetrics replaces the old one and the stop
\* event is cleared.
SrvStartReset ==
  /\ call.at = "idle"
  /\ call.starts < MaxStarts
  /\ call' = [call EXCEPT !.op = "start", !.at = "kill_port",
                          !.starts = @ + 1, !.error = NoError]
  /\ self' = [self EXCEPT !.temp_dir = TRUE,
                              !.metrics = ServerMetricsObject(call.starts + 1),
                              !.stop_event = FALSE]
  /\ lifecycle' = "Starting"
  /\ UNCHANGED <<restVars, subprocs, threads>>

\* server.py 15-32, 61: the processes that lsof finds on the port are sent
\* kill -9; lsof may find none of the earlier subprocesses (not installed,
\* port not bound) and every exception is swallowed.
SrvKillOnPort ==
  /\ call.at = "kill_port"
  /\ \E killed \in SUBSET {p \in 1..Len(subprocs) : subprocs[p] = "running"} :
       subprocs' = [p \in 1..Len(subprocs) |->
                      IF p \in killed THEN "exited" ELSE subprocs[p]]
  /\ call' = [call EXCEPT !.at = "popen"]
  /\ UNCHANGED <<restVars, self, threads, lifecycle>>

\* server.py 65-69: the subprocess is spawned and self._proc set to it,
\* whatever self._proc was; Popen raises OSError when rerun cannot be run.
SrvPopen ==
  /\ call.at = "popen"
  /\ \/ /\ subprocs' = Append(subprocs, "running")
        /\ self' = [self EXCEPT !.proc = Len(subprocs) + 1]
        /\ call' = [call EXCEPT !.at = "poll"]
        /\ UNCHANGED lifecycle
     \/ /\ call' = [call EXCEPT !.op = "none", !.at = "idle",
                                !.error = Error("OSError", <<"rerun">>)]
        /\ lifecycle' = "Failed"
        /\ UNCHANGED <<subprocs, self>>
  /\ UNCHANGED <<restVars, threads>>

\* server.py 71-87: a subprocess that died in the warm-up makes start()
\* raise; otherwise start_time is recorded and a new sampler thread is
\* started and kept in self._monitor_thread, whatever thread was there.
SrvStartPoll ==
  /\ call.at = "poll"
  /\ IF subprocs[self.proc] # "running"
       THEN /\ call' = [call EXCEPT
                          !.op = "none", !.at = "idle",
                          !.error = Error("Rerun server failed to start.",
                                          <<>>)]
            /\ lifecycle' = "Failed"
            /\ UNCHANGED <<self, threads>>
       ELSE /\ threads' = Append(threads, [at |-> "init", process |-> 0])
            /\ self' = [self EXCEPT !.metrics.start_time = 1,
                                        !.monitor_thread = Len(threads) + 1]
            /\ call' = [call EXCEPT !.op = "none", !.at = "idle"]
            /\ lifecycle' = "Running"
  /\ UNCHANGED <<restVars, subprocs>>

\* server.py 90-98: the thread reads self._proc as it is when the thread
\* gets to run and returns when it is None; psutil.Process is made for the
\* pid of that subprocess.
SrvSamplerInit(t) ==
  /\ threads[t].at = "init"
  /\ threads' = [threads EXCEPT
                   ![t] = IF self.proc = 0
                            THEN [at |-> "done", process |-> 0]
                            ELSE [at |-> "check", process |-> self.proc]]
  /\ UNCHANGED <<restVars, self, subprocs, call, lifecycle>>

\* server.py 100: the loop condition reads the stop event as it is now.
SrvSamplerCheck(t) ==
  /\ threads[t].at = "check"
  /\ threads' = [threads EXCEPT
                   ![t].at = IF self.stop_event THEN "done" ELSE "polling"]
  /\ UNCHANGED <<restVars, self, subprocs, call, lifecycle>>

\* server.py 101-103, 111-116: one poll of the thread's own process: its
\* memory, NoSuchProcess (the loop breaks), or another exception, swallowed.
SrvSamplerPoll(t) ==
  /\ threads[t].at = "polling"
  /\ \/ /\ subprocs[threads[t].process] = "running"
        /\ Len(self.metrics.memory_samples) < MaxSamples
        /\ threads' = [threads EXCEPT ![t].at = "append"]
     \/ /\ subprocs[threads[t].process] # "running"
        /\ threads' = [threads EXCEPT ![t].at = "done"]
     \/ /\ threads' = [threads EXCEPT ![t].at = "check"]
  /\ UNCHANGED <<restVars, self, subprocs, call, lifecycle>>

\* server.py 105-109, 116: the sample is appended to the memory_samples of
\* whatever self._metrics is now; then the thread waits on the stop event.
SrvSamplerAppend(t) ==
  /\ threads[t].at = "append"
  /\ self' = [self EXCEPT
                  !.metrics.memory_samples =
                     Append(@, [thread |-> t, process |-> threads[t].process])]
  /\ threads' = [threads EXCEPT ![t].at = "check"]
  /\ UNCHANGED <<restVars, subprocs, call, lifecycle>>

\* server.py 118-119: stop() is entered, whatever was called before, and the
\* stop event is set.
SrvStopSignal ==
  /\ call.at = "idle"
  /\ call.stops < MaxStops
  /\ call' = [call EXCEPT !.op = "stop", !.at = "join", !.stops = @ + 1,
                          !.error = NoError]
  /\ self' = [self EXCEPT !.stop_event = TRUE]
  /\ lifecycle' = "Stopping"
  /\ UNCHANGED <<restVars, subprocs, threads>>

\* server.py 121-124: the thread in self._monitor_thread is joined for at
\* most 2 s; end_time is recorded whether or not it has ended.
SrvStopJoin ==
  /\ call.at = "join"
  /\ self' = [self EXCEPT !.metrics.end_time = 1]
  /\ call' = [call EXCEPT !.at = "terminate"]
  /\ UNCHANGED <<restVars, subprocs, threads, lifecycle>>

\* server.py 126-134: the subprocess in self._proc is terminated, waited
\* for, killed if need be, and the handle dropped.
SrvStopTerminate ==
  /\ call.at = "terminate"
  /\ IF self.proc # 0
       THEN /\ subprocs' = [subprocs EXCEPT ![self.proc] = "exited"]
            /\ self' = [self EXCEPT !.proc = 0]
       ELSE UNCHANGED <<subprocs, self>>
  /\ call' = [call EXCEPT !.at = "rrd"]
  /\ UNCHANGED <<restVars, threads, lifecycle>>

\* server.py 47-52, 136-137: the rrd file is measured; rrd_file raises when
\* start() was never called, exists() and stat() when the file system
\* refuses.  stop() ends.
SrvStopRrd ==
  /\ call.at = "rrd"
  /\ \/ /\ self.temp_dir
        /\ \E size \in {0, 1} :
             self' = [self EXCEPT !.metrics.rrd_file_size_mb = size]
        /\ call' = [call EXCEPT !.op = "none", !.at = "idle"]
     \/ /\ call' = [call EXCEPT
                      !.op = "none", !.at = "idle",
                      !.error = IF self.temp_dir
                                  THEN Error("OSError", <<"benchmark.rrd">>)
                                  ELSE Error("Server not started", <<>>)]
        /\ UNCHANGED self
  /\ lifecycle' = "Stopped"
  /\ UNCHANGED <<restVars, subprocs, threads>>

NextServer ==
  \/ SrvStartReset
  \/ SrvKillOnPort
  \/ SrvPopen
  \/ SrvStartPoll
  \/ SrvStopSignal
  \/ SrvStopJoin
  \/ SrvStopTerminate
  \/ SrvStopRrd
  \/ \E p \in 1..Len(subprocs) : SrvProcExit(p)
  \/ \E t \in 1..Len(threads) : SrvSamplerInit(t)
  \/ \E t \in 1..Len(threads) : SrvSamplerCheck(t)
  \/ \E t \in 1..Len(threads) : SrvSamplerPoll(t)
  \/ \E t \in 1..Len(threads) : SrvSamplerAppend(t)

SpecServer == InitServer /\ [][NextServer]_vars


\* ------------------------------------------------------------ properties
AllClientsExited == \A k \in 1..Len(cstate) : cstate[k] = "exited"

\* C1: no client process is launched unless server.start() has returned
\* without raising and the following server.is_running() has returned true;
\* when is_running() returns false the run raises and no client is launched.
C1_ClientsOnlyAfterLiveness ==
  /\ client_procs # <<>> =>
       start_outcome = "returned" /\ alive_check = "true"
  /\ alive_check = "false" =>
       /\ client_procs = <<>>
       /\ exc # NoError
       /\ pc \in {"call_stop", "in_stop", "cleanup", "raised"}

C1_Witness ==
  /\ Len(client_procs) = 2
  /\ alive_check = "true"
  /\ start_outcome = "returned"

\* C2: on every exit path server.stop() is invoked only when every client
\* process launched so far has exited.
C2_StopAfterClientsExited ==
  pc = "in_stop" /\ spc = "stop_signal" => AllClientsExited

\* C3: the server metrics are read, the client metrics files loaded and the
\* result file written only after server.stop() has returned; the result file
\* is written only when run_benchmark returned without raising.
C3_CollectAfterStop ==
  /\ result.has_server_metrics \/ result.client_metrics # <<>> =>
       stop_outcome = "returned"
  /\ saved =>
       /\ stop_outcome = "returned"
       /\ exit_snapshot.taken
       /\ exc = NoError

C3_Witness ==
  /\ saved
  /\ result.has_server_metrics
  /\ result.client_metrics # <<>>


\* C4: when the server subprocess has already exited at the time start() polls
\* it, start() raises an error that carries the captured stdout and stderr,
\* start_time is not recorded, no sampler thread is started, and the
\* orchestrator launches no client.
C4_DeadServerStep ==
  spc = "start_poll" /\ srvProc = "exited" /\ spc' # spc =>
    /\ spc' = "raised"
    /\ srv_error'.type = "Rerun server failed to start."
    /\ srv_error'.payload = <<srvOut'.stdout, srvOut'.stderr>>
    /\ metrics'.start_time = 0
    /\ monitor_thread' = "none"

C4_DeadServerFailsStart ==
  /\ [][C4_DeadServerStep]_vars
  /\ [](start_outcome = "raised" =>
          /\ exc = srv_error
          /\ metrics.start_time = 0
          /\ monitor_thread = "none"
          /\ client_procs = <<>>
          /\ cstate = <<>>)

C4_Witness ==
  /\ start_outcome = "raised"
  /\ exc.type = "Rerun server failed to start."
  /\ exc.payload = <<"out", "err">>
  /\ pc = "raised"


\* The number of clients of the groups whose language the backend supports.
RECURSIVE SupportedCount(_)
SupportedCount(groups) ==
  IF groups = <<>> THEN 0
  ELSE (IF Head(groups).language \in Range(supported_languages)
          THEN Head(groups).count ELSE 0)
       + SupportedCount(Tail(groups))

\* C5: when the launch phase has completed, the number of launched clients is
\* the sum of count over the groups with a supported language (the others are
\* skipped without an error), the ids are client_0 .. client_{n-1} in launch
\* order without gaps, and the metrics-file paths are pairwise distinct.
C5_LaunchedClients ==
  pc = "launched" =>
    /\ exc = NoError
    /\ Len(client_procs) = SupportedCount(config.clients)
    /\ Len(cstate) = Len(client_procs)
    /\ \A k \in 1..Len(client_procs) :
         /\ client_procs[k].client_id = ClientId(k - 1)
         /\ client_procs[k].proc = k
    /\ \A j, k \in 1..Len(client_procs) :
         j # k => client_procs[j].metrics_file # client_procs[k].metrics_file

C5_Witness ==
  /\ pc = "launched"
  /\ Len(config.clients) = 3
  /\ config.clients[1].language = "python"
  /\ config.clients[2].language = "cpp"
  /\ config.clients[3].language = "python"
  /\ Len(client_procs) = 2
  /\ client_procs[2].client_id = ClientId(1)

\* C6: when every client group was skipped, run_benchmark raises
\* "No clients started", and when that error leaves run_benchmark the server
\* has been stopped, the temporary directory removed unless kept, and no
\* result is returned or saved.
C6_NoClientsAborts ==
  /\ pc \in {"returned", "done"} => client_procs # <<>>
  /\ pc = "raised" /\ group_idx > Len(config.clients) /\ client_procs = <<>> =>
       /\ exc = Error("No clients started", <<>>)
       /\ stop_outcome = "returned"
       /\ ~exit_snapshot.server_running
       /\ exit_snapshot.tmpdir = IF keep_tmpdir THEN "exists" ELSE "removed"
       /\ ~saved

\* C7: a failure raised by server.stop() is never escalated: run_benchmark
\* does not raise because of it, and metrics collection, result assembly and
\* the removal of the temporary directory still proceed.
C7_StopFailureNotEscalated ==
  stop_outcome = "raised" /\ exit_snapshot.taken =>
    /\ exc # srv_error
    /\ exc = NoError => result.has_server_metrics

\* C8: on every exit path of run_benchmark after the temporary directory was
\* created, the directory has been removed when keep_tmpdir is false and is
\* still there when keep_tmpdir is true.
C8_TmpdirReleased ==
  /\ exit_snapshot.taken /\ exc.type # "Unknown backend" =>
       exit_snapshot.tmpdir = IF keep_tmpdir THEN "exists" ELSE "removed"
  /\ pc \in {"returned", "raised", "done"} => exit_snapshot.taken
  /\ tmpdir = "none" <=> pc \in {"get_backend", "mkdtemp"}
                         \/ exc.type = "Unknown backend"

C8_Witness ==
  /\ pc = "raised"
  /\ ~keep_tmpdir
  /\ exc.type = "JSONDecodeError"
  /\ exit_snapshot.tmpdir = "removed"

\* C9: on every exit path of run_benchmark no client process it launched and
\* no server subprocess it spawned is still running when control leaves it.
C9_NoProcessLeft ==
  exit_snapshot.taken =>
    ~exit_snapshot.clients_running /\ ~exit_snapshot.server_running

\* The records of the launched clients whose metrics file exists, in launch
\* order.
ExistingRecords ==
  LET present == SelectSeq(client_procs,
                           LAMBDA c : c.metrics_file \in DOMAIN files)
  IN  [k \in 1..Len(present) |-> ClientRecord(present[k].client_id)]

\* C10: after all clients have exited, a launched client without a metrics
\* file contributes nothing and raises no error: the result's client metrics
\* are exactly the records of the launched clients whose file exists, in launch
\* order, and the aggregate's client_count is the number of those records.
C10_MissingFileSkipped ==
  pc = "cleanup" /\ result.has_server_metrics =>
    /\ AllClientsExited
    /\ exc = NoError <=>
         \A k \in 1..Len(client_procs) :
           client_procs[k].metrics_file \in DOMAIN files =>
             files[client_procs[k].metrics_file].valid_json
    /\ exc = NoError =>
         /\ result.client_metrics = ExistingRecords
         /\ aggregated_client_metrics.client_count =
              Cardinality({k \in 1..Len(client_procs) :
                             client_procs[k].metrics_file \in DOMAIN files})

C10_Witness ==
  /\ pc = "cleanup"
  /\ exc = NoError
  /\ Len(client_procs) = 3
  /\ result.client_metrics =
       <<ClientRecord(ClientId(0)), ClientRecord(ClientId(2))>>
  /\ aggregated_client_metrics.client_count = 2


\* C11: no way a launched client can end aborts the run: once every launched
\* client has been waited for and server.stop() has returned, run_benchmark
\* returns its result and raises nothing, whatever the clients left behind
\* (a good file, a file with recorded errors, no file, a file cut short).
C11_ClientFailureNeverAborts ==
  /\ client_procs # <<>>
  /\ wait_idx > Len(client_procs)
  /\ stop_outcome = "returned"
  => exc = NoError /\ pc # "raised"


\* C20: the backend is resolved before anything else: with a backend type that
\* is not registered, run_benchmark never gets past the lookup; it ends with
\* the unknown-backend error naming the registered backends, no temporary
\* directory was ever made and no server or client process was ever started.
C20_UnknownBackendFailsFirst ==
  config.type \notin Range(BACKENDS) =>
    /\ pc \in {"get_backend", "raised"}
    /\ pc = "raised" =>
         /\ exc = Error("Unknown backend", BACKENDS)
         /\ exit_snapshot = Snapshot("none", FALSE, FALSE)
    /\ tmpdir = "none"
    /\ srvProc = "none"
    /\ proc = FALSE
    /\ start_outcome = "none"
    /\ client_procs = <<>>
    /\ cstate = <<>>

C20_Witness ==
  /\ config.type = "foxglove"
  /\ pc = "raised"
  /\ exc = Error("Unknown backend", <<"rerun">>)
  /\ tmpdir = "none"


\* What the orchestrator would load from the client's metrics file.
LoadedFile ==
  ClientMetrics_from_dict(ClientMetrics_parse(written[Len(written)]))

\* C12: the client writes its metrics file exactly once on every exit path
\* of main: whichever step failed (size parsing, connecting, payload
\* generation, a publish call, the schedule computation), the file has been
\* written once when the process has exited.
C12_FileWrittenOnEveryExit ==
  cpc = "exited" => Len(written) = 1

\* C13: when a publish call raises after k completed iterations, the
\* exception is caught, its message recorded, and the file written holds the
\* partial metrics: log_count = k and the k latencies recorded so far.
C13_PartialMetricsFlushed ==
  cpc = "exited" /\ raised_in = "publish" =>
    /\ Len(written) = 1
    /\ LoadedFile.errors = <<cerr.type>>
    /\ LoadedFile.log_count = log_count
    /\ LoadedFile.latencies_ms = latencies

\* A run of the loop at 10 Hz for 1 s that ended without an exception.
TenHertzOneSecond ==
  /\ cpc = "exited"
  /\ raised_in = "none"
  /\ argv.frequency = 10
  /\ argv.duration = Rat(1, 1)

\* C14 as stated: at 10 Hz for 1 s the log count is between 9 and 11 for every
\* choice of the publish calls' durations.
C14_CountForAnyJitter ==
  TenHertzOneSecond => LoadedFile.log_count \in 9..11

\* C14, amended: at 10 Hz for 1 s the log count never exceeds 11, and it is
\* at least 9 whenever no publish call took longer than one interval and no
\* sleep overran by more than one interval; slower publish calls give fewer
\* iterations.
C14_CountForBoundedJitter ==
  TenHertzOneSecond =>
    /\ LoadedFile.log_count <= 11
    /\ (\A k \in 1..Len(latencies) : latencies[k] <= interval)
         /\ worst_oversleep <= interval
       => LoadedFile.log_count >= 9

C14_Witness ==
  /\ TenHertzOneSecond
  /\ \E k \in 1..Len(latencies) : latencies[k] = interval
  /\ \E k \in 1..Len(latencies) : latencies[k] = 0
  /\ worst_oversleep = interval
  /\ LoadedFile.log_count = 9


\* The sum of the first k clients' own throughputs, each log_count over the
\* client's own duration, 0 when that duration is not positive.
RECURSIVE OwnThroughputs(_, _)
OwnThroughputs(clients, k) ==
  IF k = 0 THEN Zero
  ELSE LET c == clients[k]
           own == IF c.end_time - c.start_time <= 0 THEN Zero
                  ELSE Rat(c.log_count, c.end_time - c.start_time)
       IN  RatAdd(OwnThroughputs(clients, k - 1), own)

RECURSIVE LogCounts(_, _)
LogCounts(clients, k) ==
  IF k = 0 THEN 0 ELSE LogCounts(clients, k - 1) + clients[k].log_count

\* C15: for a non-empty list of client records the aggregate's client_count
\* is the number of records, total_log_count the sum of their log_count, and
\* total_throughput the sum of each record's own throughput (log_count over
\* its own end_time - start_time, 0 when that is not positive), not a
\* throughput over the merged window.
C15_AggregateTotals ==
  agg.done /\ bench.client_metrics # <<>> =>
    LET clients == bench.client_metrics
    IN  /\ agg.value.client_count = Len(clients)
        /\ agg.value.total_log_count = LogCounts(clients, Len(clients))
        /\ agg.value.total_throughput = OwnThroughputs(clients, Len(clients))

C15_Witness ==
  /\ agg.done
  /\ Len(bench.client_metrics) = 3
  /\ \E k \in 1..3 :
       /\ bench.client_metrics[k].log_count > 0
       /\ bench.client_metrics[k].end_time = bench.client_metrics[k].start_time
  /\ \E k \in 1..3 : bench.client_metrics[k].start_time = 2
  /\ agg.value.total_log_count = 7
  /\ agg.value.total_throughput = Rat(2, 1)

\* How many entries of xs are v, are below v, are at most v.
Times(xs, v) == Cardinality({j \in DOMAIN xs : xs[j] = v})
Below(xs, v) == Cardinality({j \in DOMAIN xs : xs[j] < v})
AtMost(xs, v) == Cardinality({j \in DOMAIN xs : xs[j] <= v})

RECURSIVE TimesInAll(_, _, _)
TimesInAll(clients, k, v) ==
  IF k = 0 THEN 0
  ELSE TimesInAll(clients, k - 1, v) + Times(clients[k].latencies_ms, v)

\* v is the nearest-rank p99 of xs: 0 for no values, otherwise the value at
\* the 0-based rank min(floor(0.99 * n), n - 1) of the ascending order.
IsNearestRank99(xs, v) ==
  IF xs = <<>> THEN v = 0
  ELSE LET n == Len(xs)
           floor99 == (99 * n) \div 100
           rank == IF floor99 < n - 1 THEN floor99 ELSE n - 1
       IN  /\ v \in Range(xs)
           /\ Below(xs, v) <= rank
           /\ AtMost(xs, v) >= rank + 1

\* C16: the aggregate's latency statistics are those of the concatenation of
\* all clients' latencies_ms, every sample counted once; p99, per client (as
\* written to the file) and in the aggregate, is the nearest-rank value
\* sorted[min(floor(0.99 * n), n - 1)]; p99 of 1, 2, ..., 100 is 100 and p99
\* of no values is 0.
C16_LatencyStatistics ==
  /\ agg.done =>
       LET clients == bench.client_metrics
           all == agg.value.all_latencies
           values == UNION {Range(clients[k].latencies_ms) :
                              k \in DOMAIN clients}
       IN  /\ Range(all) = values
           /\ \A v \in values : Times(all, v) = TimesInAll(clients, Len(clients), v)
           /\ IsNearestRank99(all, agg.value.latency_p99_ms)
           /\ all # <<>> =>
                /\ agg.value.latency_mean_ms.num * Len(all) =
                     agg.value.latency_mean_ms.den * SumSeq(all)
                /\ agg.value.latency_max_ms \in values
                /\ agg.value.latency_min_ms \in values
                /\ \A v \in values : /\ v <= agg.value.latency_max_ms
                                     /\ agg.value.latency_min_ms <= v
  /\ outfile.done =>
       LET written_clients == BenchmarkResult_parse(outfile.text).client_metrics
       IN  \A k \in DOMAIN written_clients :
             /\ IsNearestRank99(bench.client_metrics[k].latencies_ms,
                                written_clients[k].latency_p99_ms)
             /\ bench.client_metrics[k].latencies_ms = OneToHundred =>
                  written_clients[k].latency_p99_ms = 100
             /\ bench.client_metrics[k].latencies_ms = <<>> =>
                  written_clients[k].latency_p99_ms = 0

C16_Witness ==
  /\ agg.done
  /\ outfile.done
  /\ Len(bench.client_metrics) = 2
  /\ bench.client_metrics[1].latencies_ms = OneToHundred
  /\ bench.client_metrics[2].latencies_ms = <<3, 1>>
  /\ BenchmarkResult_parse(outfile.text).client_metrics[1].latency_p99_ms = 100
  /\ Len(agg.value.all_latencies) = 102
  /\ agg.value.latency_p99_ms = 99
  /\ agg.value.latency_max_ms = 100

\* C17: aggregating never raises on empty input: for no clients the aggregate
\* has client_count 0 and every numeric field zero; for clients whose latency
\* lists are all empty every latency field is zero while client_count and the
\* totals are computed as usual.
C17_EmptyInput ==
  agg.done =>
    LET clients == bench.client_metrics
        a == agg.value
        no_latency == /\ a.latency_mean_ms = Zero
                      /\ a.latency_p50_ms = Zero
                      /\ a.latency_p99_ms = 0
                      /\ a.latency_max_ms = 0
                      /\ a.latency_min_ms = 0
    IN  /\ a.latency_mean_ms # StatisticsError
        /\ a.latency_p50_ms # StatisticsError
        /\ clients = <<>> =>
             /\ a.client_count = 0
             /\ a.total_log_count = 0
             /\ a.total_throughput = Zero
             /\ no_latency
        /\ (clients # <<>> /\ \A k \in DOMAIN clients :
                                clients[k].latencies_ms = <<>>) =>
             /\ a.client_count = Len(clients)
             /\ a.total_log_count = LogCounts(clients, Len(clients))
             /\ a.total_throughput = OwnThroughputs(clients, Len(clients))
             /\ no_latency

C17_Witness ==
  /\ agg.done
  /\ Len(bench.client_metrics) = 2
  /\ \A k \in 1..2 : bench.client_metrics[k].latencies_ms = <<>>
  /\ agg.value.client_count = 2
  /\ agg.value.latency_p99_ms = 0

\* The fields a record stores, as against those derived from them.
StoredClientFields ==
  {"client_id", "data_type", "data_size", "frequency_hz", "log_count",
   "latencies_ms", "start_time", "end_time", "errors"}
StoredServerFields ==
  {"memory_samples", "start_time", "end_time", "rrd_file_size_mb"}

\* C18: saving a BenchmarkResult and loading the saved file gives a result
\* with the same server metrics (samples in order, times, artifact size), the
\* same client records in the same order and the same config snapshot; the
\* derived fields in the file are not taken over but recomputed, to the values
\* that were written.
C18_SaveLoadRoundTrip ==
  reloaded.done =>
    LET got == reloaded.value
        file == BenchmarkResult_parse(outfile.text)
    IN  /\ got.server_metrics = bench.server_metrics
        /\ got.client_metrics = bench.client_metrics
        /\ got.config_snapshot = bench.config_snapshot
        /\ got.name = bench.name /\ got.timestamp = bench.timestamp
        /\ DOMAIN got.server_metrics = StoredServerFields
        /\ \A k \in DOMAIN got.client_metrics :
             DOMAIN got.client_metrics[k] = StoredClientFields
        /\ BenchmarkResult_to_dict(got) = file

C18_Witness ==
  /\ reloaded.done
  /\ Len(bench.client_metrics) = 3
  /\ bench.client_metrics[1].errors # <<>>
  /\ bench.client_metrics[2].data_size.kind = "str"
  /\ bench.client_metrics[3].latencies_ms = <<2, 5, 2>>
  /\ Len(bench.server_metrics.memory_samples) = 2
  /\ reloaded.value.client_metrics = bench.client_metrics
  /\ BenchmarkResult_parse(outfile.text).aggregated_client_metrics.client_count
       = 3


\* What a call of the registry must have done, given the names registered so
\* far in order of first registration and the class last registered under
\* each.
C19_AfterCall ==
  /\ last_call.op = "get" =>
       /\ last_call.raised <=> last_call.name \notin Range(registered.order)
       /\ ~last_call.raised =>
            /\ last_call.instance \in DOMAIN instances
            /\ instances[last_call.instance] =
                 registered.latest[last_call.name]
       /\ last_call.raised =>
            /\ registry = before
            /\ \/ last_call.available = Join(", ", registered.order)
               \/ last_call.available = <<"none">>
            /\ registered.order = <<>> => last_call.available = <<"none">>
            /\ (\E k \in DOMAIN registered.order : registered.order[k] # "")
                 => last_call.available = Join(", ", registered.order)
  /\ last_call.op = "list" =>
       /\ last_call.names = registered.order
       /\ \A i, j \in DOMAIN last_call.names :
            last_call.names[i] = last_call.names[j] => i = j

\* A get that returns makes an instance that did not exist before.
C19_NewInstance ==
  (last_call'.op = "get" /\ ~last_call'.raised /\ calls' = calls + 1) =>
    /\ last_call'.instance \notin DOMAIN instances
    /\ \A i \in DOMAIN instances : instances'[i] = instances[i]

\* C19: after any sequence of register calls, get(name) succeeds exactly when
\* the name has been registered and then returns a new instance of the class
\* most recently registered under it; otherwise it raises the unknown-backend
\* error that lists all registered names (or 'none') and leaves the registry
\* as it was; list() returns each registered name once, in order of first
\* registration.
C19_Registry == [][C19_NewInstance]_vars /\ [](C19_AfterCall)

C19_Witness ==
  /\ last_call.op = "get"
  /\ last_call.name = "rerun"
  /\ ~last_call.raised
  /\ last_call.instance = 2
  /\ instances = <<"RerunBackend", "FoxgloveBackend">>
  /\ registry = <<[key |-> "rerun", value |-> "FoxgloveBackend"]>>


\* C30: every metrics file the client process writes has log_count equal to
\* the number of its latencies_ms, on the clean exit path (both are copied from
\* the loop's counters) and on every error path (both keep the record's
\* defaults, 0 and the empty list).
C30_CountMatchesLatencies ==
  \A k \in DOMAIN written :
    LET file == ClientMetrics_from_dict(ClientMetrics_parse(written[k]))
    IN  file.log_count = Len(file.latencies_ms)

\* A file written after a loop that completed iterations, with nothing raised.
C30_Witness ==
  /\ cpc = "exited"
  /\ raised_in = "none"
  /\ Len(written) = 1
  /\ LoadedFile.log_count = 5
  /\ Len(LoadedFile.latencies_ms) = 5


\* ceil(duration * frequency)
CeilIterations ==
  (argv.duration.num * argv.frequency + argv.duration.den - 1)
    \div argv.duration.den

\* Iteration log_count of the loop has begun: the loop test at line 108 passed.
IterationBegins == cpc = "publish"

\* The loop is at line 121-124 and is not ahead of its absolute schedule.
BehindSchedule ==
  /\ cpc = "schedule"
  /\ now >= start_time + log_count * interval

\* C29: for every choice of the publish calls' durations, iteration k of the
\* loop (k counted from 0) begins no earlier than start_time + k * interval
\* and before start_time + duration; hence log_count never exceeds
\* ceil(duration * frequency); and after a slow publish call the loop does not
\* sleep while it is not ahead of the absolute schedule.
C29_AbsoluteSchedule ==
  /\ [](IterationBegins =>
          /\ now >= start_time + log_count * interval
          /\ now < start_time + Ticks(argv.duration.num, argv.duration.den))
  /\ [](cpc \in {"loop", "publish", "schedule", "finish", "finally", "exited"}
          /\ raised_in = "none"
        => log_count <= CeilIterations)
  /\ [][BehindSchedule => now' = now /\ cpc' = "loop"]_vars

\* A publish call of two intervals (iteration 0), then iteration 1 begun
\* without a sleep and done at once: iteration 2 begins exactly on schedule.
C29_Witness ==
  /\ IterationBegins
  /\ argv.frequency = 10
  /\ latencies = <<2, 0>>
  /\ log_count = 2
  /\ now = start_time + 2 * interval
  /\ worst_oversleep = 0


\* C28: the payload published at iteration i of the client loop (i counted
\* from 0) is the one generated with seed regen_interval * floor(i /
\* regen_interval): iterations 0..99 publish the seed-0 payload made before
\* the loop, and the payload changes exactly at i = 100, 200, ...
C28_PayloadSeed ==
  [][cpc = "publish" /\ cpc' = "schedule" =>
       /\ current_data' = regen_interval * (log_count \div regen_interval)
       /\ (current_data' # current_data <=>
             log_count > 0 /\ log_count % regen_interval = 0)]_vars

\* Iteration 200 has published the payload generated with seed 200.
C28_Witness ==
  /\ cpc = "schedule"
  /\ log_count = 2 * regen_interval + 1
  /\ current_data = 2 * regen_interval


\* C23: once stop() has returned, the sampler appends no further sample to
\* the server's sample sequence, so the orchestrator's read of the server
\* metrics, and the result that holds the same sequence, are never followed
\* by a sampler append; this includes a stop() whose join timed out.
C23_SamplesFrozenAfterStop ==
  [][stop_outcome = "returned" =>
       metrics'.memory_samples = metrics.memory_samples]_vars


SamplerAlive == monitor_thread \in {"init", "check", "polling", "append"}

\* stop() has been called and has ended.
StopEnded == stop_outcome \in {"returned", "raised"}

\* C26 as stated: stop() is never blocked by the sampler, and a stop() that
\* was called returns.
C26_StopReturns ==
  stop_outcome = "called" ~> stop_outcome = "returned"

\* C26, amended: stop() is never blocked by the sampler.  Past the join,
\* end_time is recorded whether or not the sampler has ended; a stop() that
\* was called ends, by returning or by raising what the measurement of the
\* rrd file raised; and when it has ended the subprocess has been signalled
\* and has exited.
C26_StopNeverBlocked ==
  /\ [](spc \in {"stop_terminate", "stop_wait", "stop_rrd"} \/ StopEnded =>
          metrics.end_time = 1)
  /\ [](StopEnded => ~proc /\ srvProc = "exited")
  /\ [](stop_outcome = "raised" => srv_error.type = "OSError")
  /\ (stop_outcome = "called" ~> StopEnded)

\* stop() has returned, having terminated the subprocess, while the sampler
\* it gave up waiting for is still in its poll.
C26_Witness ==
  /\ stop_outcome = "returned"
  /\ SamplerAlive
  /\ metrics.end_time = 1
  /\ sent = <<"SIGTERM">>
  /\ srvProc = "exited"


\* Some launched client process has not exited.
ClientStillRunning == \E k \in 1..Len(cstate) : cstate[k] = "running"

\* C27: the run has no timeout on clients.  Once the server has started and
\* the clients are launched, in a run where every client process exits,
\* run_benchmark stops the server, removes the temporary directory (unless
\* it is kept) and returns; and server.stop() is never invoked while a
\* launched client has not exited.
C27_RunEndsWhenClientsExit ==
  /\ pc = "wait" ~> /\ pc \in {"returned", "done"}
                    /\ stop_outcome = "returned"
                    /\ (tmpdir = "removed" \/ keep_tmpdir)
  /\ [](stop_outcome # "none" => ~ClientStillRunning)


\* C22: stop() shuts the subprocess down by the two-step path only.  A
\* force-kill is sent only by the step that waited for the subprocess, with
\* the terminate signal already sent and the subprocess still alive, so the
\* signals sent are none, SIGTERM, or SIGTERM then SIGKILL; and when stop()
\* has returned the subprocess has exited and is_running() is false.
C22_TerminateThenKill ==
  /\ [](sent \in {<<>>, <<"SIGTERM">>, <<"SIGTERM", "SIGKILL">>})
  /\ [][sent' # sent /\ sent'[Len(sent')] = "SIGKILL" =>
          /\ spc = "stop_wait"
          /\ srvProc = "running"
          /\ sent = <<"SIGTERM">>]_vars
  /\ [](stop_outcome = "returned" => srvProc = "exited" /\ ~is_running)

\* stop() has returned after the subprocess outlived the wait that followed
\* the terminate signal and was force-killed.
C22_Witness ==
  /\ stop_outcome = "returned"
  /\ sent = <<"SIGTERM", "SIGKILL">>
  /\ srvProc = "exited"
  /\ ~is_running


\* The sampler threads that have not ended.
AliveSamplers == {t \in 1..Len(threads) : threads[t].at # "done"}

\* The threads that have appended to the controller's current sample
\* sequence.
Writers ==
  {self.metrics.memory_samples[i].thread :
     i \in 1..Len(self.metrics.memory_samples)}

\* The transitions of the lifecycle the specification allows.
LifecycleSteps ==
  {<<"NotStarted", "Starting">>, <<"Starting", "Running">>,
   <<"Running", "Stopping">>, <<"Stopping", "Stopped">>,
   <<"Starting", "Failed">>, <<"Running", "Failed">>}

\* C21: under every sequence of start() and stop() calls the lifecycle
\* changes only by the allowed transitions, and no start() call spawns a
\* second subprocess.
C21_LifecycleOnlyForward ==
  /\ [][lifecycle' # lifecycle =>
          <<lifecycle, lifecycle'>> \in LifecycleSteps]_vars
  /\ [](Len(subprocs) <= 1)

\* C24: under every sequence of start() and stop() calls at most one sampler
\* thread is alive, and the controller's current sample sequence has one
\* writer.
C24_SingleSampler ==
  /\ Cardinality(AliveSamplers) <= 1
  /\ Cardinality(Writers) <= 1

====
